---------------------------- MODULE Spec2Model ----------------------------
(* Ledger application: transaction store (ledger/db/database.py) and the   *)
(* period reporting / trend aggregation service                            *)
(* (ledger/services/statistics_service.py).                                *)
(*                                                                         *)
(* Representation.                                                         *)
(*   - A Python str is a sequence of character codes (ASCII), so that      *)
(*     formatting, slicing ([:7]) and SQLite's TEXT comparison are       *)
(*     computed, not assumed.                                              *)
(*   - A datetime.date is a record [year, month, day].                     *)
(*   - A float produced by  cents / 100.0  is the record                   *)
(*     [whole, frac] of its integer part and its hundredths.               *)
(*   - SQL NULL / Python None is the model value None.                     *)
(*   - An INTEGER column that may be NULL (category_id, account_id,        *)
(*     parent_id) holds None or the one-element sequence <<id>>.           *)
EXTENDS Integers, Sequences, FiniteSets, TLC

VARIABLES
    rows,      \* table transactions: sequence of rows in rowid order
    nextId,    \* the AUTOINCREMENT counter of transactions.id
    today,     \* the value date.today() returns
    ledger,    \* history: id -> the record the caller last wrote for it
    last_write,\* history: the kind of the last write, where it is recorded
    tie_order, \* the order in which SQLite returns groups of equal ORDER BY key
    seen,      \* history: a report call and its result that the caller kept
    call,      \* the last operation invoked, with its arguments
    ret,       \* the value that operation returned
    raised,    \* whether it raised an exception instead of returning
    extra,     \* table transactions: id -> the columns no report reads
    categories,\* table categories: sequence of rows in rowid order
    accounts,  \* table accounts: sequence of rows in rowid order
    version,   \* table schema_version: its row, 0 where it has none
    sqlite_sequence, \* the AUTOINCREMENT counters of categories and accounts
    clock      \* the value datetime.now() returns

vars == <<rows, nextId, today, ledger, last_write, tie_order, seen, call, ret,
          raised, extra, categories, accounts, version, sqlite_sequence, clock>>

\* SQL NULL / Python None: a value no string equals
None == <<-1>>

-----------------------------------------------------------------------------
(* Character codes and string formatting                                   *)

Ch0 == 48
ChDash == 45
ChW == 87

Digit(n) == Ch0 + n

\* f"{n:02d}"
Fmt02d(n) == <<Digit((n \div 10) % 10), Digit(n % 10)>>

\* f"{n:04d}"
Fmt04d(n) ==
    <<Digit((n \div 1000) % 10), Digit((n \div 100) % 10),
      Digit((n \div 10) % 10), Digit(n % 10)>>

\* f"{n}" for a non-negative integer
RECURSIVE FmtInt(_)
FmtInt(n) == IF n < 10 THEN <<Digit(n)>> ELSE FmtInt(n \div 10) \o <<Digit(n % 10)>>

\* int(s) for a string of decimal digits
RECURSIVE ParseInt(_)
ParseInt(s) ==
    IF Len(s) = 0 THEN 0
    ELSE 10 * ParseInt(SubSeq(s, 1, Len(s) - 1)) + (s[Len(s)] - Ch0)

\* comparison of two TEXT values (SQLite BINARY collation) / Python str
RECURSIVE StrLess(_, _)
StrLess(a, b) ==
    IF Len(b) = 0 THEN FALSE
    ELSE IF Len(a) = 0 THEN TRUE
    ELSE IF a[1] # b[1] THEN a[1] < b[1]
    ELSE StrLess(Tail(a), Tail(b))

StrLE(a, b) == a = b \/ StrLess(a, b)

-----------------------------------------------------------------------------
(* datetime.date                                                           *)

Date(y, m, d) == [year |-> y, month |-> m, day |-> d]

IsLeap(y) == y % 4 = 0 /\ (y % 100 # 0 \/ y % 400 = 0)

\* a faulty month length: every fourth year is a leap year
DaysInMonthJulian(y, m) ==
    IF m = 2 THEN (IF y % 4 = 0 THEN 29 ELSE 28)
    ELSE IF m \in {4, 6, 9, 11} THEN 30 ELSE 31

\* calendar.monthrange(year, month)[1]
DaysInMonth(y, m) ==
    IF m = 2 THEN (IF IsLeap(y) THEN 29 ELSE 28)
    ELSE IF m \in {4, 6, 9, 11} THEN 30 ELSE 31

\* days of the year before the first day of month m
DaysBeforeMonth(y, m) ==
    <<0, 31, 59, 90, 120, 151, 181, 212, 243, 273, 304, 334>>[m]
        + (IF m > 2 /\ IsLeap(y) THEN 1 ELSE 0)

DaysBeforeYear(y) ==
    (y - 1) * 365 + ((y - 1) \div 4) - ((y - 1) \div 100) + ((y - 1) \div 400)

\* date.toordinal(): 0001-01-01 is day 1
ToOrdinal(dt) ==
    DaysBeforeYear(dt.year) + DaysBeforeMonth(dt.year, dt.month) + dt.day

\* date comparison  a <= b
DateLE(a, b) ==
    \/ a.year < b.year
    \/ a.year = b.year /\ a.month < b.month
    \/ a.year = b.year /\ a.month = b.month /\ a.day <= b.day

\* date.fromordinal(n)
FromOrdinal(ordinal) ==
    LET n0 == ordinal - 1
        n400 == n0 \div 146097
        r400 == n0 % 146097
        n100 == r400 \div 36524
        r100 == r400 % 36524
        n4 == r100 \div 1461
        r4 == r100 % 1461
        n1 == r4 \div 365
        n == r4 % 365
        year == n400 * 400 + 1 + n100 * 100 + n4 * 4 + n1
        leapyear == n1 = 3 /\ (n4 # 24 \/ n100 = 3)
        guess == (n + 50) \div 32
        \* _DAYS_BEFORE_MONTH[m] + (m > 2 and leapyear); year 4 is leap, year 1 is not
        before(m) == DaysBeforeMonth(IF leapyear THEN 4 ELSE 1, m)
        month == IF before(guess) > n THEN guess - 1 ELSE guess
    IN  IF n1 = 4 \/ n100 = 4
        THEN Date(year - 1, 12, 31)
        ELSE Date(year, month, n - before(month) + 1)

\* current + timedelta(days=1)
AddDay(dt) == FromOrdinal(ToOrdinal(dt) + 1)

\* datetime.strptime(s, "%Y-%m-%d").date() on a well-formed YYYY-MM-DD string
Strptime(s) ==
    Date(ParseInt(SubSeq(s, 1, 4)), ParseInt(SubSeq(s, 6, 7)),
         ParseInt(SubSeq(s, 9, 10)))

\* a character code of "0".."9"
IsDigit(c) == Ch0 <= c /\ c <= Ch0 + 9

\* datetime.strptime(s, "%Y-%m-%d").date() returns a date for the
\* ten-character string s: four digits, "-", two digits of a month, "-", two
\* digits of a day of that month; otherwise it raises ValueError
Parses(s) ==
    /\ Len(s) = 10
    /\ s[5] = ChDash /\ s[8] = ChDash
    /\ \A i \in {1, 2, 3, 4, 6, 7, 9, 10} : IsDigit(s[i])
    /\ LET dt == Strptime(s)
       IN  /\ dt.year >= 1
           /\ dt.month \in 1..12
           /\ dt.day \in 1..DaysInMonth(dt.year, dt.month)

\* the outcome of a call that raises ValueError
ValueError == [raised |-> "ValueError"]

\* dt.strftime("%Y-%m-%d")
Strftime(dt) ==
    Fmt04d(dt.year) \o <<ChDash>> \o Fmt02d(dt.month) \o <<ChDash>> \o Fmt02d(dt.day)

\* faulty variant: weeks that run from Sunday to Saturday
IsoWeek1Sunday(y) ==
    LET firstday == ToOrdinal(Date(y, 1, 1))
        firstweekday == firstday % 7
        week1sunday == firstday - firstweekday
    IN  IF firstweekday > 3 THEN week1sunday + 7 ELSE week1sunday

\* ordinal of the Monday of ISO week 1 of year y
IsoWeek1Monday(y) ==
    LET firstday == ToOrdinal(Date(y, 1, 1))
        firstweekday == (firstday + 6) % 7
        week1monday == firstday - firstweekday
    IN  IF firstweekday > 3 THEN week1monday + 7 ELSE week1monday

\* Integer floor division, as Python's divmod(a, 7)[0] for negative a
FloorDiv7(a) == IF a >= 0 THEN a \div 7 ELSE -((6 - a) \div 7)

\* dt.isocalendar()[:2], the pair <<iso_year, iso_week>>
IsoCalendar(dt) ==
    LET ord == ToOrdinal(dt)
        w0 == FloorDiv7(ord - IsoWeek1Monday(dt.year))
    IN  IF w0 < 0
        THEN <<dt.year - 1, FloorDiv7(ord - IsoWeek1Monday(dt.year - 1)) + 1>>
        ELSE IF w0 >= 52 /\ ord >= IsoWeek1Monday(dt.year + 1)
        THEN <<dt.year + 1, 1>>
        ELSE <<dt.year, w0 + 1>>

\* faulty variant: the calendar year of the date in place of the ISO year
WeekKeyCalendarYear(dt) ==
    FmtInt(dt.year) \o <<ChDash, ChW>> \o Fmt02d(IsoCalendar(dt)[2])

\* f"{iso_year}-W{iso_week:02d}"
WeekKey(dt) ==
    LET iso == IsoCalendar(dt)
    IN  FmtInt(iso[1]) \o <<ChDash, ChW>> \o Fmt02d(iso[2])

\* cents / 100.0
Div100(cents) == [whole |-> cents \div 100, frac |-> cents % 100]

-----------------------------------------------------------------------------
(* Python float: IEEE 754 binary64, round to nearest, ties to even         *)

\* the number of significant bits of a binary64 value
MantBits == 53

\* 0.0
FZero == [exp |-> 0, bits |-> <<>>]

\* a positive float is [exp, bits]: bits[1] = 1 is worth 2^exp, bits[i] is
\* worth 2^(exp - i + 1)

\* n / d scaled by a power of two into [1, 2): <<n', d', k>> with
\* n / d = (n' / d') * 2^k
RECURSIVE Normalised(_, _, _)
Normalised(n, d, k) ==
    IF n < d THEN Normalised(2 * n, d, k - 1)
    ELSE IF n >= 2 * d THEN Normalised(n, 2 * d, k + 1)
    ELSE <<n, d, k>>

\* bits plus one in the last place, with the carry out as a leading bit: a
\* bit changes when all the bits after it are 1
Incremented(bits) ==
    LET n == Len(bits)
        ones(i) == \A j \in (i + 1)..n : bits[j] = 1
    IN  [i \in 1..(n + 1) |->
            IF i = 1 THEN (IF ones(0) THEN 1 ELSE 0)
            ELSE IF ones(i - 1) THEN 1 - bits[i - 1] ELSE bits[i - 1]]

\* the float of a MantBits-bit significand, rounded up by one unit in the
\* last place when up holds
Rounded(exp, bits, up) ==
    IF ~up THEN [exp |-> exp, bits |-> bits]
    ELSE LET inc == Incremented(bits)
         IN  IF inc[1] = 1
             THEN [exp |-> exp + 1, bits |-> SubSeq(inc, 1, MantBits)]
             ELSE [exp |-> exp, bits |-> SubSeq(inc, 2, MantBits + 1)]

\* the next k bits of the binary expansion of r / d, for 0 <= r < d
RECURSIVE QuotientBits(_, _, _)
QuotientBits(r, d, k) ==
    IF k = 0 THEN <<>>
    ELSE <<(2 * r) \div d>> \o QuotientBits((2 * r) % d, d, k - 1)

\* the remainder left after those k bits
RECURSIVE Remainder(_, _, _)
Remainder(r, d, k) ==
    IF k = 0 THEN r ELSE Remainder((2 * r) % d, d, k - 1)

\* cents / 100.0 for cents >= 0: the float nearest to the quotient
FloatDiv100(cents) ==
    IF cents = 0 THEN FZero
    ELSE LET nd == Normalised(cents, 100, 0)
             n == nd[1]
             d == nd[2]
             bits == <<1>> \o QuotientBits(n - d, d, MantBits - 1)
             rest == 2 * Remainder(n - d, d, MantBits - 1)
         IN  Rounded(nd[3], bits, rest > d \/ (rest = d /\ bits[MantBits] = 1))

\* a + b for floats a, b >= 0
FloatAdd(a, b) ==
    IF a = FZero THEN b
    ELSE IF b = FZero THEN a
    ELSE LET hi == IF a.exp >= b.exp THEN a ELSE b
             lo == IF a.exp >= b.exp THEN b ELSE a
             shift == hi.exp - lo.exp
             zeros == [i \in 1..shift |-> 0]
             x == <<0>> \o hi.bits \o zeros
             y == <<0>> \o zeros \o lo.bits
             n == MantBits + 1 + shift
             carry(i) ==
                 IF \E j \in (i + 1)..n :
                        /\ x[j] + y[j] = 2
                        /\ \A k \in (i + 1)..(j - 1) : x[k] + y[k] = 1
                 THEN 1 ELSE 0
             sum == SubSeq([i \in 1..n |-> (x[i] + y[i] + carry(i)) % 2], 1, n)
             first == IF sum[1] = 1 THEN 1 ELSE 2
             tail == SubSeq(sum, first + MantBits, n)
             guard == Len(tail) > 0 /\ tail[1] = 1
             sticky == \E i \in 2..Len(tail) : tail[i] = 1
         IN  IF shift > MantBits + 2 THEN hi
             ELSE Rounded(hi.exp + (2 - first),
                          SubSeq(sum, first, first + MantBits - 1),
                          guard /\ (sticky \/ sum[first + MantBits - 1] = 1))

\* a < b for floats a, b >= 0
FloatLess(a, b) ==
    IF b = FZero THEN FALSE
    ELSE IF a = FZero THEN TRUE
    ELSE \/ a.exp < b.exp
         \/ /\ a.exp = b.exp
            /\ \E i \in 1..MantBits :
                  /\ a.bits[i] < b.bits[i]
                  /\ \A j \in 1..(i - 1) : a.bits[j] = b.bits[j]

\* sum(values): Python adds the items from the left, starting from 0
FloatSum(values) ==
    LET acc[i \in 0..Len(values)] ==
            IF i = 0 THEN FZero ELSE FloatAdd(acc[i - 1], values[i])
    IN  acc[Len(values)]

-----------------------------------------------------------------------------
(* Database: the transactions table and its statistics queries             *)

\* the stored columns of a Transaction that the queries read
Row(id, type, amount_cents, date, category) ==
    [id |-> id, type |-> type, amount_cents |-> amount_cents, date |-> date,
     category |-> category]

\* faulty variant: a range widened to the whole weeks of its two ends
InRangeWholeWeeks(start_date, end_date) ==
    LET week(s) == (ToOrdinal(Strptime(s)) - 1) \div 7
    IN  SelectSeq(rows, LAMBDA r : /\ week(start_date) <= week(r.date)
                                   /\ week(r.date) <= week(end_date))

\* faulty variant: WHERE date >= ? AND date < ?
InRangeHalfOpen(start_date, end_date) ==
    SelectSeq(rows, LAMBDA r : StrLE(start_date, r.date) /\ StrLess(r.date, end_date))

\* WHERE date >= ? AND date <= ?
InRange(start_date, end_date) ==
    SelectSeq(rows, LAMBDA r : StrLE(start_date, r.date) /\ StrLE(r.date, end_date))

\* SUM(CASE WHEN ... THEN amount_cents ELSE 0 END): the sum of amount_cents
\* over the rows the CASE condition selects
SumCase(sel) ==
    LET total[i \in 0..Len(sel)] ==
            IF i = 0 THEN 0 ELSE total[i - 1] + sel[i].amount_cents
    IN  total[Len(sel)]

\* ORDER BY date: a set of TEXT values in ascending order
RECURSIVE OrderBy(_)
OrderBy(S) ==
    IF S = {} THEN <<>>
    ELSE LET m == CHOOSE x \in S : \A y \in S : StrLE(x, y)
         IN  <<m>> \o OrderBy(S \ {m})

\* a faulty summary query: WHERE date >= ? AND date < ?, while the daily
\* queries keep date <= ?
SummaryExclusiveEnd(start_date, end_date) ==
    LET sel == InRangeHalfOpen(start_date, end_date)
    IN  [income  |-> SumCase(SelectSeq(sel, LAMBDA r : r.type = "income")),
         expense |-> SumCase(SelectSeq(sel, LAMBDA r : r.type = "expense"))]

\* Database.get_summary_by_date_range
get_summary_by_date_range(start_date, end_date) ==
    LET sel == InRange(start_date, end_date)
    IN  [income  |-> SumCase(SelectSeq(sel, LAMBDA r : r.type = "income")),
         expense |-> SumCase(SelectSeq(sel, LAMBDA r : r.type = "expense"))]

\* faulty variant: the expense column sums the rows of every type
DailySummaryNoTypeSplit(start_date, end_date) ==
    LET sel == InRange(start_date, end_date)
        dates == OrderBy({sel[i].date : i \in DOMAIN sel})
    IN  [i \in DOMAIN dates |->
            [date    |-> dates[i],
             income  |-> SumCase(SelectSeq(sel, LAMBDA r : r.date = dates[i] /\ r.type = "income")),
             expense |-> SumCase(SelectSeq(sel, LAMBDA r : r.date = dates[i]))]]

\* Database.get_daily_summary
get_daily_summary(start_date, end_date) ==
    LET sel == InRange(start_date, end_date)
        dates == OrderBy({sel[i].date : i \in DOMAIN sel})
    IN  [i \in DOMAIN dates |->
            [date    |-> dates[i],
             income  |-> SumCase(SelectSeq(sel, LAMBDA r : r.date = dates[i] /\ r.type = "income")),
             expense |-> SumCase(SelectSeq(sel, LAMBDA r : r.date = dates[i] /\ r.type = "expense"))]]

\* faulty variant: the category filter applied to the income column too
DailySummaryIncomeFiltered(start_date, end_date, category) ==
    LET sel == InRange(start_date, end_date)
        dates == OrderBy({sel[i].date : i \in DOMAIN sel})
        pass(r) == category = None \/ r.category = category
    IN  [i \in DOMAIN dates |->
            [date    |-> dates[i],
             income  |-> SumCase(SelectSeq(sel, LAMBDA r : r.date = dates[i] /\ r.type = "income"
                                                  /\ pass(r))),
             expense |-> SumCase(SelectSeq(sel, LAMBDA r : r.date = dates[i] /\ r.type = "expense"
                                                  /\ pass(r)))]]

\* faulty variant: the category filter ignored
DailySummaryUnfiltered(start_date, end_date, category) ==
    get_daily_summary(start_date, end_date)

\* Database.get_daily_summary_by_category
get_daily_summary_by_category(start_date, end_date, category) ==
    IF category = None
    THEN get_daily_summary(start_date, end_date)
    ELSE LET sel == InRange(start_date, end_date)
             dates == OrderBy({sel[i].date : i \in DOMAIN sel})
         IN  [i \in DOMAIN dates |->
                [date    |-> dates[i],
                 income  |-> SumCase(SelectSeq(sel, LAMBDA r : r.date = dates[i] /\ r.type = "income")),
                 expense |-> SumCase(SelectSeq(sel, LAMBDA r : r.date = dates[i] /\ r.type = "expense"
                                                      /\ r.category = category))]]

-----------------------------------------------------------------------------
(* StatisticsService: trend data                                           *)

Bucket(label, income_cents, expense_cents) ==
    [label |-> label, income |-> Div100(income_cents), expense |-> Div100(expense_cents)]

\* the zero-filled bucket: "income": 0.0, "expense": 0.0
ZeroBucket(label) == [label |-> label, income |-> Div100(0), expense |-> Div100(0)]

\* the accumulation loops  for item in raw_data: map[key] += item
Accumulate(raw_data, key, empty) ==
    LET acc[i \in 0..Len(raw_data)] ==
            IF i = 0 THEN empty
            ELSE LET map == acc[i - 1]
                     item == raw_data[i]
                     k == key[i]
                     old == IF k \in DOMAIN map THEN map[k]
                            ELSE [income |-> 0, expense |-> 0]
                     new == [income  |-> old.income + item.income,
                             expense |-> old.expense + item.expense]
                 IN  [x \in DOMAIN map \cup {k} |-> IF x = k THEN new ELSE map[x]]
    IN  acc[Len(raw_data)]

EmptyMap == [x \in {} |-> 0]

\* a bucket from an aggregation map, zero-filled when the key is absent
FromMap(map, key) ==
    IF key \in DOMAIN map
    THEN Bucket(key, map[key].income, map[key].expense)
    ELSE ZeroBucket(key)

\* faulty variant: while current < end, the last day left out
DailyLoopExclusive(start, end, data_map) ==
    LET first == ToOrdinal(start)
        last == ToOrdinal(end)
    IN  [i \in 1..(last - first) |->
            FromMap(data_map, Strftime(FromOrdinal(first + i - 1)))]

\* the while loop of _get_daily_trend_advanced: one iteration for every day
\* current = start, start + 1 day, ... while current <= end
DailyLoop(start, end, data_map) ==
    LET first == ToOrdinal(start)
        last == ToOrdinal(end)
    IN  [i \in 1..(last - first + 1) |->
            FromMap(data_map, Strftime(FromOrdinal(first + i - 1)))]

\* StatisticsService._get_daily_trend_advanced
get_daily_trend_advanced(start, end, category) ==
    LET raw_data == get_daily_summary_by_category(Strftime(start), Strftime(end), category)
        data_map == [d \in {raw_data[i].date : i \in DOMAIN raw_data} |->
                        LET item == CHOOSE it \in {raw_data[i] : i \in DOMAIN raw_data} :
                                        it.date = d
                        IN  [income |-> item.income, expense |-> item.expense]]
    IN  [granularity |-> "day", data |-> DailyLoop(start, end, data_map)]

\* the while loop of _get_weekly_trend_advanced over the days first..last
\* (ordinals of current), run as the loop over the first half of the days
\* followed by the loop over the second half; acc is <<visited_weeks, result>>
RECURSIVE WeeklyLoop(_, _, _, _)
WeeklyLoop(first, last, weekly_map, acc) ==
    IF first > last THEN acc
    ELSE IF first = last
    THEN LET week_key == WeekKey(FromOrdinal(first))
         IN  IF week_key \notin acc[1]
             THEN <<acc[1] \cup {week_key}, Append(acc[2], FromMap(weekly_map, week_key))>>
             ELSE acc
    ELSE LET mid == (first + last) \div 2
             half == WeeklyLoop(first, mid, weekly_map, acc)
         IN  IF Len(half[2]) >= 0
             THEN WeeklyLoop(mid + 1, last, weekly_map, half)
             ELSE acc

\* StatisticsService._get_weekly_trend_advanced
get_weekly_trend_advanced(start, end, category) ==
    LET raw_data == get_daily_summary_by_category(Strftime(start), Strftime(end), category)
        weekly_map == Accumulate(raw_data,
                         [i \in DOMAIN raw_data |-> WeekKey(Strptime(raw_data[i].date))],
                         EmptyMap)
    IN  [granularity |-> "week",
         data |-> WeeklyLoop(ToOrdinal(start), ToOrdinal(end), weekly_map, <<{}, <<>>>>)[2]]

\* the while loop of _get_monthly_trend_advanced
RECURSIVE MonthlyLoop(_, _, _, _, _, _)
MonthlyLoop(current_year, current_month, end_year, end_month, monthly_map, result) ==
    IF ~(current_year < end_year
         \/ (current_year = end_year /\ current_month <= end_month))
    THEN result
    ELSE LET month_key == Fmt04d(current_year) \o <<ChDash>> \o Fmt02d(current_month)
             next == Append(result, FromMap(monthly_map, month_key))
         IN  IF current_month = 12
             THEN MonthlyLoop(current_year + 1, 1, end_year, end_month, monthly_map, next)
             ELSE MonthlyLoop(current_year, current_month + 1, end_year, end_month,
                              monthly_map, next)

\* StatisticsService._get_monthly_trend_advanced
get_monthly_trend_advanced(start, end, category) ==
    LET raw_data == get_daily_summary_by_category(Strftime(start), Strftime(end), category)
        monthly_map == Accumulate(raw_data,
                          [i \in DOMAIN raw_data |-> SubSeq(raw_data[i].date, 1, 7)],
                          EmptyMap)
    IN  [granularity |-> "month",
         data |-> MonthlyLoop(start.year, start.month, end.year, end.month,
                              monthly_map, <<>>)]

\* the loop  for year in range(start.year, end.year + 1)
RECURSIVE YearlyLoop(_, _, _, _)
YearlyLoop(year, stop, yearly_map, result) ==
    IF year >= stop THEN result
    ELSE YearlyLoop(year + 1, stop, yearly_map,
                    Append(result, FromMap(yearly_map, Fmt04d(year))))

\* faulty variant: for year in range(start.year, end.year)
YearlyTrendExclusiveEnd(start, end, category) ==
    LET raw_data == get_daily_summary_by_category(Strftime(start), Strftime(end), category)
        yearly_map == Accumulate(raw_data,
                         [i \in DOMAIN raw_data |-> SubSeq(raw_data[i].date, 1, 4)],
                         EmptyMap)
    IN  [granularity |-> "year",
         data |-> YearlyLoop(start.year, end.year, yearly_map, <<>>)]

\* StatisticsService._get_yearly_trend_advanced
get_yearly_trend_advanced(start, end, category) ==
    LET raw_data == get_daily_summary_by_category(Strftime(start), Strftime(end), category)
        yearly_map == Accumulate(raw_data,
                         [i \in DOMAIN raw_data |-> SubSeq(raw_data[i].date, 1, 4)],
                         EmptyMap)
    IN  [granularity |-> "year",
         data |-> YearlyLoop(start.year, end.year + 1, yearly_map, <<>>)]

\* a faulty get_trend_data_advanced: the fallback branch computes the daily
\* buckets but tags the result with the granularity it was passed
TrendAdvancedEchoTag(start_date, end_date, granularity, category) ==
    LET start == Strptime(start_date)
        end == Strptime(end_date)
    IN  IF ~Parses(start_date) \/ ~Parses(end_date) THEN ValueError
        ELSE IF granularity = "week" THEN get_weekly_trend_advanced(start, end, category)
        ELSE IF granularity = "month" THEN get_monthly_trend_advanced(start, end, category)
        ELSE IF granularity = "year" THEN get_yearly_trend_advanced(start, end, category)
        ELSE [get_daily_trend_advanced(start, end, category)
                 EXCEPT !.granularity = granularity]

\* StatisticsService.get_trend_data_advanced
get_trend_data_advanced(start_date, end_date, granularity, category) ==
    LET start == Strptime(start_date)
        end == Strptime(end_date)
    IN  IF ~Parses(start_date) \/ ~Parses(end_date) THEN ValueError
        ELSE IF granularity = "day" THEN get_daily_trend_advanced(start, end, category)
        ELSE IF granularity = "week" THEN get_weekly_trend_advanced(start, end, category)
        ELSE IF granularity = "month" THEN get_monthly_trend_advanced(start, end, category)
        ELSE IF granularity = "year" THEN get_yearly_trend_advanced(start, end, category)
        ELSE get_daily_trend_advanced(start, end, category)

\* a faulty get_trend_data: a range of exactly 31 days is shown by month
TrendDataUnder31(start_date, end_date) ==
    LET start == Strptime(start_date)
        end == Strptime(end_date)
        days_diff == (ToOrdinal(end) - ToOrdinal(start)) + 1
        granularity == IF days_diff < 31 THEN "day" ELSE "month"
    IN  IF ~Parses(start_date) \/ ~Parses(end_date) THEN ValueError
        ELSE get_trend_data_advanced(start_date, end_date, granularity, None)

\* StatisticsService.get_trend_data
get_trend_data(start_date, end_date) ==
    LET start == Strptime(start_date)
        end == Strptime(end_date)
        days_diff == (ToOrdinal(end) - ToOrdinal(start)) + 1
        granularity == IF days_diff <= 31 THEN "day" ELSE "month"
    IN  IF ~Parses(start_date) \/ ~Parses(end_date) THEN ValueError
        ELSE get_trend_data_advanced(start_date, end_date, granularity, None)

-----------------------------------------------------------------------------
(* Database.get_category_summary and StatisticsService: summaries          *)

\* the literal used by COALESCE(category, ...): three CJK characters
Uncategorized == <<26410, 20998, 31867>>

\* the place of group g among the groups of equal ORDER BY key; a group that
\* tie_order does not list (no other group has its total) has place 0
TieRank(g) ==
    IF \E i \in DOMAIN tie_order : tie_order[i] = g
    THEN CHOOSE i \in DOMAIN tie_order : tie_order[i] = g
    ELSE 0

\* a faulty category query: ORDER BY total, without DESC
CategorySummaryAscending(start_date, end_date, tx_type) ==
    LET sel == SelectSeq(InRange(start_date, end_date), LAMBDA r : r.type = tx_type)
        groups == {sel[i].category : i \in DOMAIN sel}
        total(g) == SumCase(SelectSeq(sel, LAMBDA r : r.category = g))
        name(g) == IF g = None THEN Uncategorized ELSE g
        first(a, b) == \/ total(a) < total(b)
                       \/ total(a) = total(b) /\ TieRank(a) < TieRank(b)
        f == CHOOSE f \in [1..Cardinality(groups) -> groups] :
                 \A i, j \in DOMAIN f : i < j => first(f[i], f[j])
    IN  [i \in DOMAIN f |-> [category |-> name(f[i]), amount_cents |-> total(f[i])]]

\* Database.get_category_summary; ORDER BY total DESC leaves the order of
\* equal totals to SQLite, which returns them in the order tie_order
get_category_summary(start_date, end_date, tx_type) ==
    LET sel == SelectSeq(InRange(start_date, end_date), LAMBDA r : r.type = tx_type)
        groups == {sel[i].category : i \in DOMAIN sel}
        total(g) == SumCase(SelectSeq(sel, LAMBDA r : r.category = g))
        name(g) == IF g = None THEN Uncategorized ELSE g
        first(a, b) == \/ total(a) > total(b)
                       \/ total(a) = total(b) /\ TieRank(a) < TieRank(b)
        f == CHOOSE f \in [1..Cardinality(groups) -> groups] :
                 \A i, j \in DOMAIN f : i < j => first(f[i], f[j])
    IN  [i \in DOMAIN f |-> [category |-> name(f[i]), amount_cents |-> total(f[i])]]

\* StatisticsService.get_month_range
get_month_range(year, month) ==
    <<Fmt04d(year) \o <<ChDash>> \o Fmt02d(month) \o <<ChDash>> \o Fmt02d(1),
      Fmt04d(year) \o <<ChDash>> \o Fmt02d(month) \o <<ChDash>>
          \o Fmt02d(DaysInMonth(year, month))>>

\* StatisticsService.get_year_range
get_year_range(year) ==
    <<Fmt04d(year) \o <<ChDash>> \o Fmt02d(1) \o <<ChDash>> \o Fmt02d(1),
      Fmt04d(year) \o <<ChDash>> \o Fmt02d(12) \o <<ChDash>> \o Fmt02d(31)>>

\* faulty variant: the month wraps from January to December within one year
RECURSIVE StartMonthLoopSameYear(_, _, _)
StartMonthLoopSameYear(k, start_year, start_month) ==
    IF k <= 0 THEN <<start_year, start_month>>
    ELSE IF start_month = 1
    THEN StartMonthLoopSameYear(k - 1, start_year, 12)
    ELSE StartMonthLoopSameYear(k - 1, start_year, start_month - 1)

\* the loop  for _ in range(n - 1)  of get_last_n_full_months_range
RECURSIVE StartMonthLoop(_, _, _)
StartMonthLoop(k, start_year, start_month) ==
    IF k <= 0 THEN <<start_year, start_month>>
    ELSE IF start_month = 1
    THEN StartMonthLoop(k - 1, start_year - 1, 12)
    ELSE StartMonthLoop(k - 1, start_year, start_month - 1)

\* StatisticsService.get_last_n_full_months_range; now is date.today()
get_last_n_full_months_range(n, now) ==
    LET end_ym == IF now.month = 1 THEN <<now.year - 1, 12>>
                  ELSE <<now.year, now.month - 1>>
        end_date == Fmt04d(end_ym[1]) \o <<ChDash>> \o Fmt02d(end_ym[2]) \o <<ChDash>>
                        \o Fmt02d(DaysInMonth(end_ym[1], end_ym[2]))
        start_ym == StartMonthLoop(n - 1, end_ym[1], end_ym[2])
        start_date == Fmt04d(start_ym[1]) \o <<ChDash>> \o Fmt02d(start_ym[2])
                        \o <<ChDash>> \o Fmt02d(1)
    IN  <<start_date, end_date>>

\* StatisticsService._get_period_summary
get_period_summary(start_date, end_date) ==
    LET summary == get_summary_by_date_range(start_date, end_date)
    IN  [income_cents |-> summary.income, expense_cents |-> summary.expense]

\* PeriodSummary.income and PeriodSummary.expense: the cents / 100.0
summary_income(summary) == Div100(summary.income_cents)
summary_expense(summary) == Div100(summary.expense_cents)

\* PeriodSummary.balance_cents
balance_cents(summary) == summary.income_cents - summary.expense_cents

\* StatisticsService.get_custom_period_summary
get_custom_period_summary(start_date, end_date) ==
    get_period_summary(start_date, end_date)

\* a faulty current-month summary: bounded by the end of the month only, it
\* counts the earlier months too
CurrentMonthSummaryToDate(now) ==
    LET r == get_month_range(now.year, now.month)
    IN  get_period_summary(Strftime(Date(1, 1, 1)), r[2])

\* StatisticsService.get_current_month_summary; now is date.today()
get_current_month_summary(now) ==
    LET r == get_month_range(now.year, now.month)
    IN  get_period_summary(r[1], r[2])

\* the (year, month) get_last_month_summary summarises; now is date.today()
last_month(now) ==
    IF now.month = 1 THEN <<now.year - 1, 12>> ELSE <<now.year, now.month - 1>>

\* StatisticsService.get_last_month_summary; now is date.today()
get_last_month_summary(now) ==
    LET ym == last_month(now)
        r == get_month_range(ym[1], ym[2])
    IN  get_period_summary(r[1], r[2])

\* a faulty percentage without the guard: amount / total * 100 for every
\* total; a denominator of 0 stands for the ZeroDivisionError of the division
PercentageUnguarded(amount, total) == [num |-> amount * 100, den |-> total]

\* amount / total * 100, kept as the exact ratio; 0 when total is not positive
Percentage(amount, total) ==
    IF total > 0 THEN [num |-> amount * 100, den |-> total] ELSE [num |-> 0, den |-> 1]

\* the body of get_category_breakdown for one query result raw_data
Breakdown(raw_data) ==
    LET total == LET t[i \in 0..Len(raw_data)] ==
                        IF i = 0 THEN 0 ELSE t[i - 1] + raw_data[i].amount_cents
                 IN  t[Len(raw_data)]
    IN  [i \in DOMAIN raw_data |->
            [category     |-> raw_data[i].category,
             amount_cents |-> raw_data[i].amount_cents,
             amount       |-> Div100(raw_data[i].amount_cents),
             percentage   |-> Percentage(raw_data[i].amount_cents, total)]]

\* StatisticsService.get_category_breakdown
get_category_breakdown(start_date, end_date, tx_type) ==
    Breakdown(get_category_summary(start_date, end_date, tx_type))

\* StatisticsService.get_expense_categories
get_expense_categories(start_date, end_date) ==
    LET raw_data == get_category_summary(start_date, end_date, "expense")
    IN  [i \in DOMAIN raw_data |-> raw_data[i].category]

\* StatisticsService.get_month_over_month_change; now is the date.today()
\* read by get_current_month_summary, later the one read afterwards by
\* get_last_month_summary
get_month_over_month_change(now, later) ==
    LET current == get_current_month_summary(now)
        last == get_last_month_summary(later)
        expense_change == current.expense_cents - last.expense_cents
        income_change == current.income_cents - last.income_cents
    IN  [expense_change_cents |-> expense_change,
         expense_change       |-> Div100(expense_change),
         expense_change_pct   |-> Percentage(expense_change, last.expense_cents),
         income_change_cents  |-> income_change,
         income_change        |-> Div100(income_change),
         income_change_pct    |-> Percentage(income_change, last.income_cents)]

-----------------------------------------------------------------------------
(* Inputs                                                                  *)

\* bound on the number of transactions ever inserted
MaxTx == 2

D(y, m, d) == Strftime(Date(y, m, d))

Food == <<102, 111, 111, 100>>
Transport == <<116, 114, 97, 110, 115, 112, 111, 114, 116>>

Categories == {Food, Transport}
Types == {"income", "expense"}
Amounts == {1000, 2550}

\* 2025-12-28 is the Sunday of ISO week 2025-W52, 2025-12-29 the Monday of
\* 2026-W01, 2026-01-04 its Sunday, 2026-01-05 and 2026-01-11 the Monday and
\* the Sunday of 2026-W02
TxDates ==
    {D(2025, 12, 28), D(2025, 12, 29), D(2026, 1, 4), D(2026, 1, 5), D(2026, 1, 11)}

ShortRanges ==
    {<<D(2025, 12, 28), D(2026, 1, 11)>>,
     <<D(2025, 12, 29), D(2026, 1, 4)>>,
     <<D(2026, 1, 4), D(2026, 1, 5)>>,
     <<D(2026, 1, 5), D(2026, 1, 11)>>,
     <<D(2025, 12, 28), D(2025, 12, 28)>>}

\* a range over three calendar years and fourteen calendar months
LongRange == <<D(2024, 12, 30), D(2026, 1, 5)>>

Ranges == ShortRanges \cup {LongRange}

Granularities == {"day", "week", "month", "year"}

\* the (range, granularity) pairs get_trend_data_advanced is called with:
\* day and week granularity on the short ranges only
TrendCalls ==
    (ShortRanges \X Granularities) \cup ({LongRange} \X {"month", "year"})

Filters == {None, Food}

\* the fields of a Transaction passed to add_transaction / update_transaction
Transactions ==
    [type : Types, amount_cents : Amounts, date : TxDates, category : Categories]

Today0 == Date(2026, 1, 12)

\* the days over which the clock is followed past midnight: the last day of
\* a month and the first day of the next
ClockDays == {Date(2026, 1, 31), Date(2026, 2, 1)}

\* ranges whose end precedes their start: inside one month and one year, and
\* from one year back into the year before
ReversedRanges ==
    {<<D(2026, 1, 5), D(2026, 1, 4)>>, <<D(2026, 1, 4), D(2025, 12, 29)>>}

\* strings that are no dates: month 13, the 30th of February, "/" for "-"
Malformed ==
    {D(2026, 13, 1), D(2026, 2, 30),
     Fmt04d(2026) \o <<47>> \o Fmt02d(1) \o <<47>> \o Fmt02d(5)}

MalformedRanges ==
    {<<D(2025, 12, 28), m>> : m \in Malformed}
        \cup {<<m, D(2026, 1, 11)>> : m \in Malformed}

\* granularity values that are none of the four
UnknownGranularities == {"quarter", "Day"}

\* the calls of get_trend_data_advanced that go beyond its contract or sit
\* at its edge
ContractCalls ==
    (ReversedRanges \X Granularities)
        \cup ({<<D(2026, 1, 4), D(2026, 1, 5)>>} \X (Granularities \cup UnknownGranularities))
        \cup (MalformedRanges \X {"day", "month"})

ContractRanges == MalformedRanges \cup {<<D(2026, 1, 4), D(2026, 1, 5)>>}

\* transactions of one amount on two days, for reports with equal totals
TiedTransactions ==
    [type : Types, amount_cents : {1000}, date : {D(2026, 1, 4), D(2026, 1, 5)},
     category : Categories]

TiedRanges == {<<D(2025, 12, 29), D(2026, 1, 4)>>, <<D(2026, 1, 4), D(2026, 1, 5)>>}

\* transactions with and without an amount, in two consecutive months
ZeroTransactions ==
    [type : Types, amount_cents : {0, 1000},
     date : {D(2025, 12, 28), D(2026, 1, 4), D(2026, 1, 5)}, category : Categories]

-----------------------------------------------------------------------------
(* Operations                                                              *)

Called(op, args) == [op |-> op, args |-> args]

\* no call is in progress: the caller has consumed the last return value
Idle == Called("idle", <<>>)

\* last_write where the kind of the last write is not recorded
Unrecorded == "unrecorded"

\* the orders SQLite may return equal groups in: the orders of the categories
TieOrders ==
    {f \in [1..Cardinality(Categories) -> Categories] :
        \A i, j \in DOMAIN f : i # j => f[i] # f[j]}

\* a query of table can return two groups: two rows of one type differ in
\* category; only then can the order of equal groups be observed
TwoGroups(table) ==
    \E i, j \in DOMAIN table :
        table[i].type = table[j].type /\ table[i].category # table[j].category

\* the value of tie_order while no query can return two groups
NoTieOrder == CHOOSE f \in TieOrders : TRUE

\* seen where the caller keeps no results, and where it keeps none yet;
\* other tells that a report with other arguments was made since it kept one
KeepsNone == [on |-> FALSE, call |-> Idle, ret |-> None, other |-> FALSE]
NoneYet == [on |-> TRUE, call |-> Idle, ret |-> None, other |-> FALSE]

\* settings.DB_SCHEMA_VERSION
DB_SCHEMA_VERSION == 3

\* settings.DEFAULT_CATEGORIES; the names are sequences of CJK characters
DEFAULT_CATEGORIES ==
    << [name |-> <<21507, 39277>>, type |-> "expense"],
       [name |-> <<23089, 20048>>, type |-> "expense"],
       [name |-> <<36141, 29289>>, type |-> "expense"],
       [name |-> <<25151, 31199, 27700, 30005>>, type |-> "expense"],
       [name |-> <<24037, 36164>>, type |-> "income"] >>

\* a row of table categories and a row of table accounts
CategoryRow(id, name, parent_id, type, created_at) ==
    [id |-> id, name |-> name, parent_id |-> parent_id, type |-> type,
     created_at |-> created_at]

AccountRow(id, name, type, created_at) ==
    [id |-> id, name |-> name, type |-> type, created_at |-> created_at]

\* Database._migrate_v3 on the table cats whose AUTOINCREMENT counter is seq:
\* the default categories are inserted only into an empty table
migrate_v3(cats, seq, created_at) ==
    IF Len(cats) = 0
    THEN [i \in DOMAIN DEFAULT_CATEGORIES |->
             CategoryRow(seq + i, DEFAULT_CATEGORIES[i].name, None,
                         DEFAULT_CATEGORIES[i].type, created_at)]
    ELSE cats

\* the AUTOINCREMENT counter of categories after _migrate_v3
migrate_v3_sequence(cats, seq) ==
    IF Len(cats) = 0 THEN seq + Len(DEFAULT_CATEGORIES) ELSE seq

\* the value of datetime.now() when the store is constructed
Now0 == 0

\* the database right after construction on a new file, before any call
EmptyStore ==
    /\ rows = <<>>
    /\ nextId = 1
    /\ ledger = <<>>
    /\ tie_order = NoTieOrder
    /\ call = Idle
    /\ ret = None
    /\ raised = FALSE
    /\ extra = <<>>
    /\ clock = Now0
    /\ categories = migrate_v3(<<>>, 0, Now0)
    /\ accounts = <<>>
    /\ version = DB_SCHEMA_VERSION
    /\ sqlite_sequence = [categories |-> migrate_v3_sequence(<<>>, 0), accounts |-> 0]

Init ==
    /\ EmptyStore
    /\ today = Today0
    /\ last_write = Unrecorded
    /\ seen = KeepsNone

\* what a write does besides changing the table: the history variables, and
\* the order of equal groups, which SQLite derives from the stored data and
\* which is any order as soon as the new table lets it be observed
Wrote(kind) ==
    /\ last_write' = IF last_write = Unrecorded THEN Unrecorded ELSE kind
    /\ seen' = IF seen.on THEN NoneYet ELSE seen
    /\ tie_order' \in IF TwoGroups(rows') THEN TieOrders ELSE {NoTieOrder}
    /\ raised' = FALSE
    /\ UNCHANGED <<categories, accounts, version, sqlite_sequence, clock>>

\* faulty variant: a report that consumes what it reads, emptying the table
\* transactions
ReportedConsuming ==
    /\ raised' = (call'.op \in {"get_trend_data_advanced", "get_trend_data"}
                     /\ ret' = [raised |-> "ValueError"])
    /\ rows' = <<>>
    /\ extra' = <<>>
    /\ UNCHANGED <<nextId, today, ledger, last_write, tie_order, seen>>
    /\ UNCHANGED <<categories, accounts, version, sqlite_sequence, clock>>

\* the reports that parse their date arguments with datetime.strptime and
\* let its ValueError propagate; they return a dict otherwise
StrptimeCallers == {"get_trend_data_advanced", "get_trend_data"}

\* what a report does besides returning: nothing to the table, the counter,
\* the date and the order of equal groups
Reported ==
    /\ raised' = (call'.op \in StrptimeCallers /\ ret' = ValueError)
    /\ seen' = IF seen.on /\ seen.call # Idle /\ call' # seen.call
               THEN [seen EXCEPT !.other = TRUE]
               ELSE seen
    /\ UNCHANGED <<rows, nextId, today, ledger, last_write, tie_order>>
    /\ UNCHANGED <<extra, categories, accounts, version, sqlite_sequence, clock>>

\* sqlite3.IntegrityError, raised where a constraint of the schema fails
IntegrityError == [raised |-> "IntegrityError"]

\* the fields of a Transaction object that no report reads; a Transaction
\* built without them has the defaults of the dataclass
AccountOf(t) == IF "account" \in DOMAIN t THEN t.account ELSE <<>>
NoteOf(t) == IF "note" \in DOMAIN t THEN t.note ELSE <<>>
CategoryIdOf(t) == IF "category_id" \in DOMAIN t THEN t.category_id ELSE None
AccountIdOf(t) == IF "account_id" \in DOMAIN t THEN t.account_id ELSE None

\* the columns account, note, created_at, category_id, account_id of a row
Columns(t, created_at) ==
    [account |-> AccountOf(t), note |-> NoteOf(t), created_at |-> created_at,
     category_id |-> CategoryIdOf(t), account_id |-> AccountIdOf(t)]

\* the ids of the rows of a table
Ids(table) == {table[i].id : i \in DOMAIN table}

\* REFERENCES categories(id) and REFERENCES accounts(id) with
\* PRAGMA foreign_keys = ON: a reference is NULL or the id of a row
ForeignKeysHold(t) ==
    /\ CategoryIdOf(t) = None \/ CategoryIdOf(t)[1] \in Ids(categories)
    /\ AccountIdOf(t) = None \/ AccountIdOf(t)[1] \in Ids(accounts)

\* a statement that raised sqlite3.IntegrityError: it changed no table
Rejected ==
    /\ ret' = IntegrityError
    /\ raised' = TRUE
    /\ UNCHANGED <<rows, nextId, today, ledger, last_write, tie_order, seen>>
    /\ UNCHANGED <<extra, categories, accounts, version, sqlite_sequence, clock>>

\* INSERT INTO transactions ... ; lastrowid
Insert(t) == Append(rows, Row(nextId, t.type, t.amount_cents, t.date, t.category))

\* faulty variant: an UPDATE that leaves the date column as it was
UpdateKeepDate(id, t) ==
    [i \in DOMAIN rows |->
        IF rows[i].id = id
        THEN Row(rows[i].id, t.type, t.amount_cents, rows[i].date, t.category)
        ELSE rows[i]]

\* UPDATE transactions SET ... WHERE id = ?
Update(id, t) ==
    [i \in DOMAIN rows |->
        IF rows[i].id = id
        THEN Row(rows[i].id, t.type, t.amount_cents, t.date, t.category)
        ELSE rows[i]]

\* faulty variant: an UPDATE that stamps the row with the time of the update
UpdateColumnsRestamped(id, t) ==
    [i \in DOMAIN extra |->
        IF i = id THEN Columns(t, clock) ELSE extra[i]]

\* UPDATE transactions SET ... WHERE id = ?: the columns no report reads;
\* created_at is not among the columns set
UpdateColumns(id, t) ==
    [i \in DOMAIN extra |->
        IF i = id THEN Columns(t, extra[i].created_at) ELSE extra[i]]

\* DELETE FROM transactions WHERE id = ?
Delete(id) == SelectSeq(rows, LAMBDA r : r.id # id)

\* Database.add_transaction with a transaction of the set txs
AddTransaction(txs) ==
    \E t \in txs :
        /\ call = Idle
        /\ nextId <= MaxTx
        /\ call' = Called("add_transaction", <<t>>)
        /\ IF ForeignKeysHold(t)
           THEN /\ rows' = Insert(t)
                /\ extra' = [i \in DOMAIN extra \cup {nextId} |->
                                IF i = nextId THEN Columns(t, clock) ELSE extra[i]]
                /\ nextId' = nextId + 1
                /\ ledger' = [i \in DOMAIN ledger \cup {nextId} |->
                                 IF i = nextId THEN t ELSE ledger[i]]
                /\ ret' = nextId
                /\ Wrote("add")
                /\ UNCHANGED today
           ELSE Rejected

add_transaction == AddTransaction(Transactions)

\* Database.update_transaction with a transaction of the set txs
UpdateTransaction(txs) ==
    \E id \in 1..MaxTx, t \in txs :
        /\ call = Idle
        /\ call' = Called("update_transaction", <<id, t>>)
        /\ IF id \in Ids(rows) => ForeignKeysHold(t)
           THEN /\ rows' = Update(id, t)
                /\ extra' = UpdateColumns(id, t)
                /\ ledger' = [i \in DOMAIN ledger |-> IF i = id THEN t ELSE ledger[i]]
                /\ ret' = None
                /\ Wrote("update")
                /\ UNCHANGED <<nextId, today>>
           ELSE Rejected

update_transaction == UpdateTransaction(Transactions)

\* Database.delete_transaction
delete_transaction ==
    \E id \in 1..MaxTx :
        /\ call = Idle
        /\ rows' = Delete(id)
        /\ extra' = [i \in DOMAIN extra \ {id} |-> extra[i]]
        /\ ledger' = [i \in DOMAIN ledger \ {id} |-> ledger[i]]
        /\ call' = Called("delete_transaction", <<id>>)
        /\ ret' = None
        /\ Wrote("delete")
        /\ UNCHANGED <<nextId, today>>

\* what a statement on the tables categories and accounts leaves alone
CatalogueOnly ==
    /\ raised' = FALSE
    /\ UNCHANGED <<rows, nextId, today, ledger, last_write, tie_order, seen>>
    /\ UNCHANGED <<extra, version, clock>>

\* faulty variant: a DELETE with foreign keys off, which removes the row
\* whether or not a transaction references it
ReferencesIgnored(id) == {}

\* the rows of table transactions that reference category id / account id
ReferencesCategory(id) == {i \in DOMAIN extra : extra[i].category_id = <<id>>}
ReferencesAccount(id) == {i \in DOMAIN extra : extra[i].account_id = <<id>>}

\* DELETE FROM categories WHERE id = ?, once no transaction references id:
\* parent_id ... ON DELETE SET NULL clears the references of child rows
CategoriesWithout(id) ==
    LET kept == SelectSeq(categories, LAMBDA c : c.id # id)
    IN  [i \in DOMAIN kept |->
            IF kept[i].parent_id = <<id>>
            THEN [kept[i] EXCEPT !.parent_id = None]
            ELSE kept[i]]

\* the bounds on the rows ever inserted into categories and into accounts
MaxCategories == 6
MaxAccounts == 1

\* store inputs: an account name and a note
Cash == <<99, 97, 115, 104>>
Memo == <<109, 101, 109, 111>>

\* the categories and the accounts that calls name: a default category, the
\* first category and the first account that a caller adds
CategoryIds == {1, Len(DEFAULT_CATEGORIES) + 1}
AccountIds == {1}

\* Transaction objects with all their fields
StoreTransactions ==
    {[type |-> "expense", amount_cents |-> a, date |-> D(2026, 1, 4),
      category |-> Food, account |-> an[1], note |-> an[2],
      category_id |-> c, account_id |-> b] :
        a \in {1000, 2550}, an \in {<<<<>>, <<>>>>, <<Cash, Memo>>},
        c \in {None} \cup {<<i>> : i \in CategoryIds},
        b \in {None} \cup {<<i>> : i \in AccountIds}}

\* Database.add_category with a name of names, a parent of parents
AddCategory(names, parents) ==
    \E name \in names, parent_id \in parents, type \in {"expense"} :
        /\ call = Idle
        /\ call' = Called("add_category", <<name, parent_id, type>>)
        /\ IF /\ \A i \in DOMAIN categories : categories[i].name # name
              /\ parent_id = None \/ parent_id[1] \in Ids(categories)
           THEN /\ sqlite_sequence.categories < MaxCategories
                /\ categories' =
                       Append(categories,
                              CategoryRow(sqlite_sequence.categories + 1, name,
                                          parent_id, type, clock))
                /\ sqlite_sequence' =
                       [sqlite_sequence EXCEPT !.categories = @ + 1]
                /\ ret' = sqlite_sequence.categories + 1
                /\ CatalogueOnly
                /\ UNCHANGED accounts
           ELSE Rejected

\* add_category with the name of a default category or a new name, under
\* no parent or under a default category
add_category ==
    AddCategory({DEFAULT_CATEGORIES[1].name, Food}, {None, <<1>>})

\* Database.delete_category with an id of ids
DeleteCategory(ids) ==
    \E id \in ids :
        /\ call = Idle
        /\ call' = Called("delete_category", <<id>>)
        /\ IF id \in Ids(categories) /\ ReferencesCategory(id) # {}
           THEN Rejected
           ELSE /\ categories' = CategoriesWithout(id)
                /\ ret' = None
                /\ CatalogueOnly
                /\ UNCHANGED <<accounts, sqlite_sequence>>

delete_category == DeleteCategory(CategoryIds)

\* Database.add_account with a name of names
AddAccount(names) ==
    \E name \in names, type \in {"cash"} :
        /\ call = Idle
        /\ call' = Called("add_account", <<name, type>>)
        /\ IF \A i \in DOMAIN accounts : accounts[i].name # name
           THEN /\ sqlite_sequence.accounts < MaxAccounts
                /\ accounts' =
                       Append(accounts,
                              AccountRow(sqlite_sequence.accounts + 1, name,
                                         type, clock))
                /\ sqlite_sequence' =
                       [sqlite_sequence EXCEPT !.accounts = @ + 1]
                /\ ret' = sqlite_sequence.accounts + 1
                /\ CatalogueOnly
                /\ UNCHANGED categories
           ELSE Rejected

\* Database.delete_account
delete_account ==
    \E id \in AccountIds :
        /\ call = Idle
        /\ call' = Called("delete_account", <<id>>)
        /\ IF id \in Ids(accounts) /\ ReferencesAccount(id) # {}
           THEN Rejected
           ELSE /\ accounts' = SelectSeq(accounts, LAMBDA a : a.id # id)
                /\ ret' = None
                /\ CatalogueOnly
                /\ UNCHANGED <<categories, sqlite_sequence>>

add_account == AddAccount({Cash})

\* Transaction.from_row: the object built from a row of table transactions
from_row(r, x) ==
    [id |-> r.id, type |-> r.type, amount_cents |-> r.amount_cents,
     date |-> r.date,
     category |-> IF r.category = None THEN <<>> ELSE r.category,
     account |-> IF x.account = None THEN <<>> ELSE x.account,
     note |-> x.note, created_at |-> x.created_at,
     category_id |-> x.category_id, account_id |-> x.account_id]

\* Database.get_transaction_by_id
get_transaction_by_id(id) ==
    IF id \in Ids(rows)
    THEN LET i == CHOOSE k \in DOMAIN rows : rows[k].id = id
         IN  from_row(rows[i], extra[id])
    ELSE None

GetTransactionById ==
    \E id \in 1..MaxTx :
        /\ call = Idle
        /\ call' = Called("get_transaction_by_id", <<id>>)
        /\ ret' = get_transaction_by_id(id)
        /\ Reported

\* the bound on the clock
MaxClock == 1

\* time passes between two calls
Tick ==
    /\ call = Idle
    /\ clock < MaxClock
    /\ clock' = clock + 1
    /\ UNCHANGED <<rows, nextId, today, ledger, last_write, tie_order, seen,
                   call, ret, raised, extra, categories, accounts, version,
                   sqlite_sequence>>

StoreAdd == AddTransaction(StoreTransactions)
StoreUpdate == UpdateTransaction(StoreTransactions)

\* a call of StatisticsService.get_trend_data_advanced with a (range,
\* granularity) pair of calls and a category of filters
CallTrendAdvanced(calls, filters) ==
    \E rg \in calls, c \in filters :
        /\ call = Idle
        /\ call' = Called("get_trend_data_advanced", <<rg[1][1], rg[1][2], rg[2], c>>)
        /\ ret' = get_trend_data_advanced(rg[1][1], rg[1][2], rg[2], c)
        /\ Reported

TrendAdvanced == CallTrendAdvanced(TrendCalls, Filters)

\* a call of StatisticsService.get_trend_data with a range of ranges
CallTrend(ranges) ==
    \E r \in ranges :
        /\ call = Idle
        /\ call' = Called("get_trend_data", <<r[1], r[2]>>)
        /\ ret' = get_trend_data(r[1], r[2])
        /\ Reported

Trend == CallTrend(Ranges)

\* a call of StatisticsService.get_custom_period_summary with a range of ranges
CallCustomPeriodSummary(ranges) ==
    \E r \in ranges :
        /\ call = Idle
        /\ call' = Called("get_custom_period_summary", <<r[1], r[2]>>)
        /\ ret' = get_custom_period_summary(r[1], r[2])
        /\ Reported

CustomPeriodSummary == CallCustomPeriodSummary(Ranges)

\* a call of StatisticsService.get_current_month_summary
CurrentMonthSummary ==
    /\ call = Idle
    /\ call' = Called("get_current_month_summary", <<>>)
    /\ ret' = get_current_month_summary(today)
    /\ Reported

\* faulty variant: a query whose order of equal groups changes with every call
CallCategoryBreakdownReordered(ranges) ==
    \E r \in ranges, tx_type \in Types :
        /\ call = Idle
        /\ call' = Called("get_category_breakdown", <<r[1], r[2], tx_type>>)
        /\ ret' = get_category_breakdown(r[1], r[2], tx_type)
        /\ tie_order' \in TieOrders
        /\ raised' = FALSE
        /\ UNCHANGED <<rows, nextId, today, ledger, last_write, seen>>
        /\ UNCHANGED <<extra, categories, accounts, version, sqlite_sequence, clock>>

\* a call of StatisticsService.get_category_breakdown with a range of ranges
CallCategoryBreakdown(ranges) ==
    \E r \in ranges, tx_type \in Types :
        /\ call = Idle
        /\ call' = Called("get_category_breakdown", <<r[1], r[2], tx_type>>)
        /\ ret' = get_category_breakdown(r[1], r[2], tx_type)
        /\ Reported

CategoryBreakdown == CallCategoryBreakdown(Ranges)

\* the caller takes the returned value; the next call can be made
Return ==
    /\ call # Idle
    /\ call' = Idle
    /\ ret' = None
    /\ raised' = FALSE
    /\ UNCHANGED <<rows, nextId, today, ledger, last_write, tie_order, seen>>
    /\ UNCHANGED <<extra, categories, accounts, version, sqlite_sequence, clock>>

Next ==
    \/ add_transaction
    \/ update_transaction
    \/ delete_transaction
    \/ TrendAdvanced
    \/ Trend
    \/ CustomPeriodSummary
    \/ CurrentMonthSummary
    \/ CategoryBreakdown
    \/ Return

Spec == Init /\ [][Next]_vars

\* the same system with the kind of the last write recorded
InitSync ==
    /\ EmptyStore
    /\ today = Today0
    /\ last_write = "none"
    /\ seen = KeepsNone

NextSync ==
    \/ add_transaction
    \/ update_transaction
    \/ delete_transaction
    \/ TrendAdvanced
    \/ Trend
    \/ CustomPeriodSummary
    \/ CurrentMonthSummary
    \/ Return

SpecSync == InitSync /\ [][NextSync]_vars

\* the period calculator alone, on any day of the years TodayYears
MaxN == 14
TodayYears == 2023..2026
Todays ==
    {Date(y, m, d) : y \in TodayYears, m \in 1..12, d \in {1, 12, 28}}
        \cup {Date(y, m, DaysInMonth(y, m)) : y \in TodayYears, m \in 1..12}

InitPeriod ==
    /\ EmptyStore
    /\ today \in Todays
    /\ last_write = Unrecorded
    /\ seen = KeepsNone

\* a call of StatisticsService.get_last_n_full_months_range
LastNFullMonthsRange ==
    \E n \in (-1)..MaxN :
        /\ call = Idle
        /\ call' = Called("get_last_n_full_months_range", <<n>>)
        /\ ret' = get_last_n_full_months_range(n, today)
        /\ Reported

NextPeriod ==
    \/ LastNFullMonthsRange
    \/ Return

SpecPeriod == InitPeriod /\ [][NextPeriod]_vars

\* the reports called beyond their contract: reversed ranges, strings that
\* are no dates, unknown granularities
ContractTrendAdvanced == CallTrendAdvanced(ContractCalls, Filters)
ContractTrend == CallTrend(ContractRanges)
ContractCustomPeriodSummary == CallCustomPeriodSummary(ContractRanges)
ContractCategoryBreakdown == CallCategoryBreakdown(ContractRanges)

NextContract ==
    \/ add_transaction
    \/ ContractTrendAdvanced
    \/ ContractTrend
    \/ ContractCustomPeriodSummary
    \/ ContractCategoryBreakdown
    \/ Return

SpecContract == Init /\ [][NextContract]_vars

\* the caller keeps the result of the report that has just returned
Keep ==
    /\ seen = NoneYet
    /\ call.op \in {"get_trend_data_advanced", "get_trend_data",
                    "get_custom_period_summary", "get_category_breakdown"}
    /\ seen' = [on |-> TRUE, call |-> call, ret |-> ret, other |-> FALSE]
    /\ UNCHANGED <<rows, nextId, today, ledger, last_write, tie_order, call, ret, raised>>
    /\ UNCHANGED <<extra, categories, accounts, version, sqlite_sequence, clock>>

\* repeated reports over transactions of equal amounts, the caller keeping
\* one result until the next write
InitRepeat ==
    /\ EmptyStore
    /\ today = Today0
    /\ last_write = Unrecorded
    /\ seen = NoneYet

RepeatAdd == AddTransaction(TiedTransactions)
RepeatTrendAdvanced == CallTrendAdvanced(TiedRanges \X {"day", "week"}, Filters)
RepeatTrend == CallTrend(TiedRanges)
RepeatCustomPeriodSummary == CallCustomPeriodSummary(TiedRanges)
RepeatCategoryBreakdown == CallCategoryBreakdown(TiedRanges)

NextRepeat ==
    \/ RepeatAdd
    \/ delete_transaction
    \/ RepeatTrendAdvanced
    \/ RepeatTrend
    \/ RepeatCustomPeriodSummary
    \/ RepeatCategoryBreakdown
    \/ Keep
    \/ Return

SpecRepeat == InitRepeat /\ [][NextRepeat]_vars

\* a call of StatisticsService.get_month_over_month_change; midnight may pass
\* between its two reads of date.today()
MonthOverMonthChange ==
    \E later \in {today} \cup ({AddDay(today)} \cap ClockDays) :
        /\ call = Idle
        /\ call' = Called("get_month_over_month_change", <<>>)
        /\ ret' = get_month_over_month_change(today, later)
        /\ today' = later
        /\ raised' = FALSE
        /\ UNCHANGED <<rows, nextId, ledger, last_write, tie_order, seen>>
        /\ UNCHANGED <<extra, categories, accounts, version, sqlite_sequence, clock>>

\* ratios: transactions with and without an amount in two consecutive
\* months, on a day in the middle of a month and on its last day
InitRatio ==
    /\ EmptyStore
    /\ today \in {Today0, Date(2026, 1, 31)}
    /\ last_write = Unrecorded
    /\ seen = KeepsNone

RatioAdd == AddTransaction(ZeroTransactions)

NextRatio ==
    \/ RatioAdd
    \/ CategoryBreakdown
    \/ MonthOverMonthChange
    \/ Return

SpecRatio == InitRatio /\ [][NextRatio]_vars

\* amounts of a few cents, whose hundredths are no binary fractions, on two
\* consecutive days
SmallTransactions ==
    [type : Types, amount_cents : {10, 20}, date : {D(2026, 1, 4), D(2026, 1, 5)},
     category : {Food}]

SmallRanges ==
    {<<D(2026, 1, 4), D(2026, 1, 5)>>, <<D(2025, 12, 29), D(2026, 1, 4)>>, LongRange}

InitSmall ==
    /\ EmptyStore
    /\ today = Today0
    /\ last_write = Unrecorded
    /\ seen = KeepsNone

SmallAdd == AddTransaction(SmallTransactions)
SmallTrend == CallTrend(SmallRanges)
SmallCustomPeriodSummary == CallCustomPeriodSummary(SmallRanges)

NextSmall ==
    \/ SmallAdd
    \/ SmallTrend
    \/ SmallCustomPeriodSummary
    \/ Return

SpecSmall == InitSmall /\ [][NextSmall]_vars

\* years for the calendar helpers: leap and common years, century years
\* divisible and not divisible by 400, a year of three digits
CalendarYears == {800, 1900, 2000, 2023, 2024, 2025, 2026, 2100, 2400}

\* a call of StatisticsService.get_month_range
MonthRange ==
    \E year \in CalendarYears, month \in 1..12 :
        /\ call = Idle
        /\ call' = Called("get_month_range", <<year, month>>)
        /\ ret' = get_month_range(year, month)
        /\ Reported

\* a call of StatisticsService.get_year_range
YearRange ==
    \E year \in CalendarYears :
        /\ call = Idle
        /\ call' = Called("get_year_range", <<year>>)
        /\ ret' = get_year_range(year)
        /\ Reported

NextCalendar ==
    \/ MonthRange
    \/ YearRange
    \/ Return

SpecCalendar == Init /\ [][NextCalendar]_vars

\* expenses stored without a category (NULL), with a category, and with the
\* category named like the label of those without; the amounts differ by
\* category so that no two groups have equal totals
FilterTransactions ==
    {[type |-> "expense", amount_cents |-> ca[2], date |-> d, category |-> ca[1]] :
        ca \in {<<None, 1000>>, <<Food, 2550>>, <<Uncategorized, 300>>},
        d \in {D(2026, 1, 4), D(2026, 1, 5)}}

FilterRanges == {<<D(2026, 1, 4), D(2026, 1, 5)>>, <<D(2026, 1, 5), D(2026, 1, 5)>>}

FilterAdd == AddTransaction(FilterTransactions)

\* a call of StatisticsService.get_expense_categories
ExpenseCategories ==
    \E r \in FilterRanges :
        /\ call = Idle
        /\ call' = Called("get_expense_categories", <<r[1], r[2]>>)
        /\ ret' = get_expense_categories(r[1], r[2])
        /\ Reported

NextFilter ==
    \/ FilterAdd
    \/ ExpenseCategories
    \/ Return

SpecFilter == Init /\ [][NextFilter]_vars

\* the store with transactions, categories and accounts, and every report
\* of StatisticsService, called within and beyond its contract
NextReadOnly ==
    \/ FilterAdd
    \/ add_category
    \/ add_account
    \/ ContractTrendAdvanced
    \/ ContractTrend
    \/ ContractCustomPeriodSummary
    \/ ContractCategoryBreakdown
    \/ CurrentMonthSummary
    \/ MonthOverMonthChange
    \/ LastNFullMonthsRange
    \/ YearRange
    \/ ExpenseCategories
    \/ Return

SpecReadOnly == InitRatio /\ [][NextReadOnly]_vars

\* faulty variant: migrations that run whatever the stored version is
AlwaysBehind(current_version, v) == TRUE

\* the test current_version < v of Database._init_db
Behind(current_version, v) == current_version < v

\* Database.__init__ on the file as it is: _connect and _init_db. The
\* tables that _migrate_v1 and _migrate_v2 create are the empty tables.
InitDb ==
    /\ call = Idle
    /\ call' = Called("__init__", <<>>)
    /\ LET current_version == version
       IN  /\ categories' =
                  IF Behind(current_version, 3)
                  THEN migrate_v3(categories, sqlite_sequence.categories, clock)
                  ELSE categories
           /\ sqlite_sequence' =
                  IF Behind(current_version, 3)
                  THEN [sqlite_sequence EXCEPT !.categories =
                           migrate_v3_sequence(categories, @)]
                  ELSE sqlite_sequence
           /\ version' = IF Behind(current_version, DB_SCHEMA_VERSION)
                         THEN DB_SCHEMA_VERSION
                         ELSE version
    /\ ret' = None
    /\ raised' = FALSE
    /\ UNCHANGED <<rows, nextId, today, ledger, last_write, tie_order, seen,
                   extra, accounts, clock>>

\* the file before the store is constructed on it: a new file, or the file
\* of an earlier schema version, whose table categories (schema version 2)
\* is empty or holds a category of the user
InitFile ==
    /\ rows = <<>>
    /\ nextId = 1
    /\ ledger = <<>>
    /\ tie_order = NoTieOrder
    /\ call = Idle
    /\ ret = None
    /\ raised = FALSE
    /\ extra = <<>>
    /\ clock = Now0
    /\ accounts = <<>>
    /\ today = Today0
    /\ last_write = Unrecorded
    /\ seen = KeepsNone
    /\ version \in 0..2
    /\ categories \in
          IF version = 2
          THEN {<<>>, <<CategoryRow(1, Food, None, "expense", Now0)>>}
          ELSE {<<>>}
    /\ sqlite_sequence = [categories |-> Len(categories), accounts |-> 0]

\* the calls of a Database object, which exists once the store was constructed
SeedAddCategory == version = DB_SCHEMA_VERSION /\ add_category
SeedDeleteCategory ==
    version = DB_SCHEMA_VERSION /\ DeleteCategory(1..MaxCategories)
SeedTick == version = DB_SCHEMA_VERSION /\ Tick

NextSeed ==
    \/ InitDb
    \/ SeedAddCategory
    \/ SeedDeleteCategory
    \/ SeedTick
    \/ Return

SpecSeed == InitFile /\ [][NextSeed]_vars

\* the store with its three tables: transactions that reference categories
\* and accounts, which are added and deleted
NextStore ==
    \/ StoreAdd
    \/ delete_transaction
    \/ add_category
    \/ delete_category
    \/ add_account
    \/ delete_account
    \/ Return

SpecStore == Init /\ [][NextStore]_vars

\* the table transactions with all its columns, written and read back while
\* time passes
NextEdit ==
    \/ StoreAdd
    \/ StoreUpdate
    \/ delete_transaction
    \/ GetTransactionById
    \/ Tick
    \/ Return

SpecEdit == Init /\ [][NextEdit]_vars

\* ranges around the threshold of get_trend_data: 10, 31 and 32 days, a
\* year, and a reversed range
AutoRanges ==
    {<<D(2026, 1, 2), D(2026, 1, 11)>>,
     <<D(2025, 12, 12), D(2026, 1, 11)>>,
     <<D(2025, 12, 11), D(2026, 1, 11)>>,
     LongRange,
     <<D(2026, 1, 5), D(2026, 1, 4)>>}

AutoTrend == CallTrend(AutoRanges)

NextAuto ==
    \/ add_transaction
    \/ AutoTrend
    \/ Return

SpecAuto == Init /\ [][NextAuto]_vars

\* a call of Database.get_daily_summary_by_category, the query behind the
\* trend data, made directly
DailySummaryByCategory ==
    \E r \in Ranges, c \in Filters :
        /\ call = Idle
        /\ call' = Called("get_daily_summary_by_category", <<r[1], r[2], c>>)
        /\ ret' = get_daily_summary_by_category(r[1], r[2], c)
        /\ Reported

NextRaw ==
    \/ add_transaction
    \/ delete_transaction
    \/ DailySummaryByCategory
    \/ Return

SpecRaw == Init /\ [][NextRaw]_vars

-----------------------------------------------------------------------------
(* Vocabulary of the properties: days as integers, calendar units, sums    *)

\* the day number of a well-formed date string
Ord(date_str) == ToOrdinal(Strptime(date_str))

\* the calendar unit of granularity g that day number o lies in, as an
\* integer that grows with time: the day, the Monday-based week (day 1 is a
\* Monday), the month counted from year 0, the year
Unit(g, o) ==
    IF g = "week" THEN (o - 1) \div 7
    ELSE IF g = "month" THEN FromOrdinal(o).year * 12 + (FromOrdinal(o).month - 1)
    ELSE IF g = "year" THEN FromOrdinal(o).year
    ELSE o

\* the label of a unit: YYYY-MM-DD, YYYY-MM, YYYY, or for a week the year of
\* its Thursday and the number of that Thursday among the year's Thursdays
UnitLabel(g, u) ==
    IF g = "week"
    THEN LET thursday == 7 * u + 4
             iso_year == FromOrdinal(thursday).year
             iso_week == ((thursday - ToOrdinal(Date(iso_year, 1, 1))) \div 7) + 1
         IN  FmtInt(iso_year) \o <<ChDash, ChW>> \o Fmt02d(iso_week)
    ELSE IF g = "month" THEN Fmt04d(u \div 12) \o <<ChDash>> \o Fmt02d((u % 12) + 1)
    ELSE IF g = "year" THEN Fmt04d(u)
    ELSE Strftime(FromOrdinal(u))

\* the sum of the amounts of a set of <<key, amount>> pairs
RECURSIVE SumPairs(_)
SumPairs(S) ==
    IF S = {} THEN 0
    ELSE LET p == CHOOSE x \in S : TRUE IN p[2] + SumPairs(S \ {p})

\* the sum of amount_cents over the entries of f (a table or a ledger) of
\* the given type that satisfy Cond
Total(f, type, Cond(_)) ==
    SumPairs({<<i, f[i].amount_cents>> :
                 i \in {j \in DOMAIN f : f[j].type = type /\ Cond(f[j])}})

\* the entry's day lies in the days lo..hi and in unit u of granularity g
InUnit(t, lo, hi, g, u) ==
    LET o == Ord(t.date) IN lo <= o /\ o <= hi /\ Unit(g, o) = u

\* the entry's day lies in the days lo..hi
Within(t, lo, hi) == LET o == Ord(t.date) IN lo <= o /\ o <= hi

\* the entry is an expense the category filter lets through
Matches(t, category) == category = None \/ t.category = category

\* the cents a display value stands for
Cents(x) == x.whole * 100 + x.frac

\* the sum of a field (in cents) over a sequence of buckets or daily rows
SumSeq(seq, Field(_)) ==
    LET acc[i \in 0..Len(seq)] == IF i = 0 THEN 0 ELSE acc[i - 1] + Field(seq[i])
    IN  acc[Len(seq)]

\* the units of granularity g spanned by [start_date, end_date]: Unit grows
\* with the day and skips no unit, so they are the units from that of the
\* first day to that of the last day
UnitsOf(start_date, end_date, g) ==
    Unit(g, Ord(start_date))..Unit(g, Ord(end_date))

\* the bucket sequence get_trend_data_advanced has to return for the entries
\* of f: one bucket per spanned unit, ascending, each the sum of its entries
ExpectedTrend(f, start_date, end_date, g, category) ==
    LET units == UnitsOf(start_date, end_date, g)
        lo == Ord(start_date)
        hi == Ord(end_date)
        first == Unit(g, lo)
        In(t, u) == InUnit(t, lo, hi, g, u)
    IN  [i \in 1..Cardinality(units) |->
            LET u == first + i - 1
            IN  [label   |-> UnitLabel(g, u),
                 income  |-> Div100(Total(f, "income", LAMBDA t : In(t, u))),
                 expense |-> Div100(Total(f, "expense",
                                     LAMBDA t : In(t, u) /\ Matches(t, category)))]]

IsTrendAdvanced == call.op = "get_trend_data_advanced"

\* the arguments of the call in progress
ArgStart == call.args[1]
ArgEnd == call.args[2]
ArgGranularity == call.args[3]
ArgCategory == call.args[4]

\* the indices of the returned buckets that carry the label of unit u
BucketsOf(g, u) == {i \in DOMAIN ret.data : ret.data[i].label = UnitLabel(g, u)}

-----------------------------------------------------------------------------
(* Properties of get_trend_data_advanced                                   *)

\* C1: for a range start_date <= end_date, every returned bucket holds
\* (divided by 100) exactly the income, and the matching expense, of the
\* stored transactions dated inside the range and inside the bucket's
\* calendar unit; a unit without such transactions is returned with 0 and 0;
\* every spanned unit, hence every in-range day, has exactly one bucket, and
\* there is no other bucket.
C1_BucketSums ==
    (IsTrendAdvanced /\ StrLE(ArgStart, ArgEnd)) =>
        LET g == ArgGranularity
            units == UnitsOf(ArgStart, ArgEnd, g)
            lo == Ord(ArgStart)
            hi == Ord(ArgEnd)
            In(t, u) == InUnit(t, lo, hi, g, u)
        IN  /\ Len(ret.data) = Cardinality(units)
            /\ \A u \in units :
                    LET of_u == BucketsOf(g, u)
                    IN  /\ Cardinality(of_u) = 1
                        /\ \A i \in of_u :
                               /\ ret.data[i].income =
                                      Div100(Total(rows, "income", LAMBDA t : In(t, u)))
                               /\ ret.data[i].expense =
                                      Div100(Total(rows, "expense",
                                          LAMBDA t : In(t, u) /\ Matches(t, ArgCategory)))

\* C1 witness: a week-granularity result in which one bucket sums two
\* transactions of different days and another bucket is zero-filled
C1_Witness ==
    /\ IsTrendAdvanced /\ ArgGranularity = "week" /\ ArgCategory = None
    /\ \E i, j \in DOMAIN ret.data :
          /\ Cents(ret.data[i].expense) = 3550
          /\ Cents(ret.data[j].expense) = 0 /\ Cents(ret.data[j].income) = 0
    /\ \E a, b \in DOMAIN rows : rows[a].date # rows[b].date

\* C2: conservation of totals: the expense (income) summed over the returned
\* buckets equals the expense (income) summed over the rows of
\* get_daily_summary_by_category for the same range and filter.
C2_Conservation ==
    (IsTrendAdvanced /\ StrLE(ArgStart, ArgEnd)) =>
        LET daily == get_daily_summary_by_category(ArgStart, ArgEnd, ArgCategory)
        IN  /\ SumSeq(ret.data, LAMBDA b : Cents(b.expense))
                   = SumSeq(daily, LAMBDA d : d.expense)
            /\ SumSeq(ret.data, LAMBDA b : Cents(b.income))
                   = SumSeq(daily, LAMBDA d : d.income)

\* C2 witness: a filtered month-granularity result over two daily rows with
\* a non-zero expense total and a non-zero income total
C2_Witness ==
    /\ IsTrendAdvanced /\ ArgGranularity = "month" /\ ArgCategory = Food
    /\ Len(get_daily_summary_by_category(ArgStart, ArgEnd, ArgCategory)) = 2
    /\ SumSeq(ret.data, LAMBDA b : Cents(b.expense)) > 0
    /\ SumSeq(ret.data, LAMBDA b : Cents(b.income)) > 0
    /\ Len(ret.data) = 2

\* the number of calendar units of granularity g spanned by the days lo..hi
SpannedUnits(g, lo, hi) ==
    IF g = "day" THEN (hi - lo) + 1
    ELSE IF g = "week" THEN ((hi - 1) \div 7) - ((lo - 1) \div 7) + 1
    ELSE IF g = "month"
    THEN (FromOrdinal(hi).year * 12 + FromOrdinal(hi).month)
             - (FromOrdinal(lo).year * 12 + FromOrdinal(lo).month) + 1
    ELSE FromOrdinal(hi).year - FromOrdinal(lo).year + 1

\* C3: bucket completeness: for start_date <= end_date the number of returned
\* buckets is the number of calendar units of the granularity spanned by the
\* range, whatever the stored transactions are.
C3_BucketCount ==
    (IsTrendAdvanced /\ StrLE(ArgStart, ArgEnd)) =>
        Len(ret.data) = SpannedUnits(ArgGranularity, Ord(ArgStart), Ord(ArgEnd))

\* C3 witness: fourteen month buckets returned for a table holding one row
C3_Witness ==
    /\ IsTrendAdvanced /\ ArgGranularity = "month"
    /\ Len(ret.data) = 14
    /\ Len(rows) = 1

\* the first day of the unit a label of granularity g names
LabelStart(g, label) ==
    IF g = "week"
    THEN IsoWeek1Monday(ParseInt(SubSeq(label, 1, 4)))
             + 7 * (ParseInt(SubSeq(label, 7, 8)) - 1)
    ELSE IF g = "month"
    THEN ToOrdinal(Date(ParseInt(SubSeq(label, 1, 4)), ParseInt(SubSeq(label, 6, 7)), 1))
    ELSE IF g = "year" THEN ToOrdinal(Date(ParseInt(label), 1, 1))
    ELSE Ord(label)

\* the first day of the unit that follows the unit starting at day o
NextUnitStart(g, o) ==
    IF g = "week" THEN o + 7
    ELSE IF g = "month" THEN o + DaysInMonth(FromOrdinal(o).year, FromOrdinal(o).month)
    ELSE IF g = "year" THEN ToOrdinal(Date(FromOrdinal(o).year + 1, 1, 1))
    ELSE o + 1

\* C4: the bucket sequence is gap-free and ordered: it starts with the unit
\* of start_date, each next bucket is the calendar unit that follows, it ends
\* with the unit of end_date; the labels are pairwise distinct.
C4_GapFreeOrdered ==
    (IsTrendAdvanced /\ StrLE(ArgStart, ArgEnd)) =>
        LET g == ArgGranularity
            at(i) == LabelStart(g, ret.data[i].label)
            n == Len(ret.data)
        IN  /\ n >= 1
            /\ at(1) <= Ord(ArgStart) /\ Ord(ArgStart) < NextUnitStart(g, at(1))
            /\ at(n) <= Ord(ArgEnd) /\ Ord(ArgEnd) < NextUnitStart(g, at(n))
            /\ \A i \in 1..(n - 1) : at(i + 1) = NextUnitStart(g, at(i))
            /\ \A i, j \in 1..n : i # j => ret.data[i].label # ret.data[j].label

\* C4 witness: week buckets across the ISO week-year boundary 2025-W52,
\* 2026-W01, 2026-W02
C4_Witness ==
    /\ IsTrendAdvanced /\ ArgGranularity = "week"
    /\ Len(ret.data) = 3
    /\ ret.data[1].label = FmtInt(2025) \o <<ChDash, ChW>> \o Fmt02d(52)
    /\ ret.data[2].label = FmtInt(2026) \o <<ChDash, ChW>> \o Fmt02d(1)

\* the returned buckets of the call in progress with the same arguments but
\* no category filter
Unfiltered == get_trend_data_advanced(ArgStart, ArgEnd, ArgGranularity, None).data

\* C5: income is independent of the category filter: each bucket of a call
\* with a category filter has the same label and the same income as the
\* bucket at the same position of the call without filter, and there are as
\* many buckets.
C5_IncomeIndependent ==
    (IsTrendAdvanced /\ ArgCategory # None) =>
        /\ Len(ret.data) = Len(Unfiltered)
        /\ \A i \in DOMAIN ret.data :
              /\ ret.data[i].label = Unfiltered[i].label
              /\ ret.data[i].income = Unfiltered[i].income

\* C5 witness: a filtered result with a bucket whose income is not zero and
\* whose expense differs from the unfiltered one, over a table whose income
\* row is of another category than the filter
C5_Witness ==
    /\ IsTrendAdvanced /\ ArgCategory = Food
    /\ \E i \in DOMAIN ret.data :
          /\ Cents(ret.data[i].income) > 0
          /\ ret.data[i].expense # Unfiltered[i].expense
    /\ \E a \in DOMAIN rows : rows[a].type = "income" /\ rows[a].category = Transport

\* the stored expense rows dated in the days lo..hi that filter c counts
Counted(c, lo, hi) ==
    {j \in DOMAIN rows : /\ rows[j].type = "expense"
                         /\ Within(rows[j], lo, hi)
                         /\ (c # None => rows[j].category = c)}

\* C6: with a category filter c the expense of every bucket is the sum of the
\* expense rows of category c (in range, in the bucket's unit) and of no
\* other row; a filter matching no row gives expense 0 in every bucket; with
\* no filter the expense is the sum over the rows of all categories.
C6_FilterExpense ==
    IsTrendAdvanced =>
        LET g == ArgGranularity
            counted == Counted(ArgCategory, Ord(ArgStart), Ord(ArgEnd))
            label(j) == UnitLabel(g, Unit(g, Ord(rows[j].date)))
        IN  /\ \A i \in DOMAIN ret.data :
                  Cents(ret.data[i].expense) =
                      SumPairs({<<j, rows[j].amount_cents>> :
                                   j \in {k \in counted : label(k) = ret.data[i].label}})
            /\ counted = {} => \A i \in DOMAIN ret.data : ret.data[i].expense = Div100(0)

\* C6 witness: two expenses of one date, one of the filter's category and
\* one of another; the bucket of that date holds the first alone
C6_Witness ==
    /\ IsTrendAdvanced /\ ArgCategory = Food /\ ArgGranularity = "day"
    /\ Len(rows) = 2
    /\ rows[1].date = rows[2].date
    /\ rows[1].type = "expense" /\ rows[2].type = "expense"
    /\ rows[1].category = Food /\ rows[2].category = Transport
    /\ rows[1].amount_cents = 1000 /\ rows[2].amount_cents = 2550
    /\ \E i \in DOMAIN ret.data :
          ret.data[i].label = rows[1].date /\ Cents(ret.data[i].expense) = 1000

\* the empty case of C6: a filter that matches none of the stored expenses
C6_NoMatch ==
    /\ IsTrendAdvanced /\ ArgCategory = Food
    /\ Len(rows) = 2
    /\ \A j \in DOMAIN rows : rows[j].type = "expense" /\ rows[j].category = Transport
    /\ \A i \in DOMAIN ret.data : Cents(ret.data[i].expense) = 0

-----------------------------------------------------------------------------
(* ISO weeks                                                               *)

\* the Monday-to-Sunday week of day number o (day 1, 0001-01-01, is a Monday)
MondayWeek(o) == (o - 1) \div 7

\* the day number of the Thursday of the week of day number o
ThursdayOf(o) == 7 * MondayWeek(o) + 4

\* the indices of the returned buckets that day number o falls in: the
\* buckets labelled with the year of the Thursday of o's week and the rank of
\* that Thursday among the Thursdays of its year
WeekBucketsOf(o) ==
    LET iso_year == FromOrdinal(ThursdayOf(o)).year
        iso_week == ((ThursdayOf(o) - ToOrdinal(Date(iso_year, 1, 1))) \div 7) + 1
    IN  {i \in DOMAIN ret.data :
            ret.data[i].label = FmtInt(iso_year) \o <<ChDash, ChW>> \o Fmt02d(iso_week)}

\* C7: in week granularity every in-range date falls in exactly one bucket,
\* labelled {iso_year}-W{iso_week:02d} with the ISO year (the year of the
\* week's Thursday); two in-range dates fall in the same bucket if and only
\* if they lie in the same Monday-to-Sunday week, a date of a later week
\* falls in a later bucket, and a row's amount is counted in the bucket its
\* date falls in.
C7_IsoWeek ==
    (IsTrendAdvanced /\ ArgGranularity = "week" /\ StrLE(ArgStart, ArgEnd)) =>
        LET days == Ord(ArgStart)..Ord(ArgEnd)
        IN  /\ \A o \in days : Cardinality(WeekBucketsOf(o)) = 1
            /\ \A o1, o2 \in days :
                  /\ (WeekBucketsOf(o1) = WeekBucketsOf(o2))
                         <=> (MondayWeek(o1) = MondayWeek(o2))
                  /\ MondayWeek(o1) < MondayWeek(o2) =>
                         \A i \in WeekBucketsOf(o1), j \in WeekBucketsOf(o2) : i < j
            /\ \A k \in DOMAIN rows :
                  (Ord(rows[k].date) \in days /\ rows[k].type = "income") =>
                      \A i \in WeekBucketsOf(Ord(rows[k].date)) :
                          Cents(ret.data[i].income) >= rows[k].amount_cents

\* C7 witness: Monday 2025-12-29 and Sunday 2026-01-04 are summed in the one
\* bucket 2026-W01, with the buckets 2025-W52 before and 2026-W02 after it
C7_Witness ==
    /\ IsTrendAdvanced /\ ArgGranularity = "week" /\ ArgCategory = None
    /\ ArgStart = D(2025, 12, 28) /\ ArgEnd = D(2026, 1, 11)
    /\ Len(rows) = 2
    /\ rows[1].date = D(2025, 12, 29) /\ rows[2].date = D(2026, 1, 4)
    /\ rows[1].type = "income" /\ rows[2].type = "income"
    /\ rows[1].amount_cents = 1000 /\ rows[2].amount_cents = 2550
    /\ Len(ret.data) = 3
    /\ ret.data[2].label = WeekKey(Date(2026, 1, 1))
    /\ Cents(ret.data[2].income) = 3550
    /\ Cents(ret.data[1].income) = 0 /\ Cents(ret.data[3].income) = 0

-----------------------------------------------------------------------------
(* Range boundaries                                                        *)

\* the sum of the stored amounts of a type dated start_date..end_date, both
\* ends included, and of nothing dated before start_date or after end_date
Inclusive(type, start_date, end_date, Cond(_)) ==
    Total(rows, type, LAMBDA t : /\ Ord(start_date) <= Ord(t.date)
                                 /\ Ord(t.date) <= Ord(end_date)
                                 /\ Cond(t))

\* C9: every aggregation over [start_date, end_date] counts the rows dated
\* exactly start_date and exactly end_date and counts no row dated before
\* start_date or after end_date: the trend buckets, the period summary and
\* the category breakdown each add up to the sums over the closed range.
C9_Boundary ==
    LET s == call.args[1]
        e == call.args[2]
    IN  /\ IsTrendAdvanced =>
              /\ SumSeq(ret.data, LAMBDA b : Cents(b.income))
                     = Inclusive("income", s, e, LAMBDA t : TRUE)
              /\ SumSeq(ret.data, LAMBDA b : Cents(b.expense))
                     = Inclusive("expense", s, e, LAMBDA t : Matches(t, ArgCategory))
        /\ call.op = "get_trend_data" =>
              /\ SumSeq(ret.data, LAMBDA b : Cents(b.income))
                     = Inclusive("income", s, e, LAMBDA t : TRUE)
              /\ SumSeq(ret.data, LAMBDA b : Cents(b.expense))
                     = Inclusive("expense", s, e, LAMBDA t : TRUE)
        /\ call.op = "get_custom_period_summary" =>
              /\ ret.income_cents = Inclusive("income", s, e, LAMBDA t : TRUE)
              /\ ret.expense_cents = Inclusive("expense", s, e, LAMBDA t : TRUE)
        /\ call.op = "get_category_breakdown" =>
              /\ \A i \in DOMAIN ret :
                    ret[i].amount_cents =
                        Inclusive(call.args[3], s, e,
                                  LAMBDA t : t.category = ret[i].category)
              /\ SumSeq(ret, LAMBDA b : b.amount_cents)
                     = Inclusive(call.args[3], s, e, LAMBDA t : TRUE)

\* C9 witness: a period summary over 2025-12-29..2026-01-04 of a table with
\* an expense of the day before the start and an expense of the end date:
\* the second alone is counted
C9_Witness ==
    /\ call.op = "get_custom_period_summary"
    /\ call.args = <<D(2025, 12, 29), D(2026, 1, 4)>>
    /\ Len(rows) = 2
    /\ rows[1].date = D(2025, 12, 28) /\ rows[2].date = D(2026, 1, 4)
    /\ rows[1].type = "expense" /\ rows[2].type = "expense"
    /\ rows[1].amount_cents = 1000 /\ rows[2].amount_cents = 2550
    /\ ret.expense_cents = 2550

-----------------------------------------------------------------------------
(* get_last_n_full_months_range                                            *)

\* the calendar month of a date, counted from year 0
MonthIndex(dt) == dt.year * 12 + (dt.month - 1)

\* the first and the last day of the calendar month with index m
FirstDayOf(m) == Date(m \div 12, (m % 12) + 1, 1)
LastDayOf(m) == Date(m \div 12, (m % 12) + 1, DaysInMonth(m \div 12, (m % 12) + 1))

IsLastNFullMonths == call.op = "get_last_n_full_months_range"

\* C8: for n >= 1 and any today, get_last_n_full_months_range(n) returns
\* (start, end) as YYYY-MM-DD strings where end is the last day of the month
\* before today's month and start the first day of the month n-1 months
\* before the end month; the range spans exactly n calendar months and ends
\* on the day before the first day of today's month.
C8_LastNFullMonths ==
    (IsLastNFullMonths /\ call.args[1] >= 1) =>
        LET n == call.args[1]
            end_month == MonthIndex(today) - 1
            start_month == end_month - (n - 1)
        IN  /\ ret[1] = Strftime(FirstDayOf(start_month))
            /\ ret[2] = Strftime(LastDayOf(end_month))
            /\ SpannedUnits("month", Ord(ret[1]), Ord(ret[2])) = n
            /\ Ord(ret[2]) + 1 = ToOrdinal(Date(today.year, today.month, 1))

\* C8 witness: n = 3 on 2026-01-12 gives 2025-10-01 .. 2025-12-31
C8_Witness ==
    /\ IsLastNFullMonths /\ call.args[1] = 3
    /\ today = Date(2026, 1, 12)
    /\ ret = <<D(2025, 10, 1), D(2025, 12, 31)>>

-----------------------------------------------------------------------------
(* Reports after writes                                                    *)

\* the sum of the amounts of a type the caller last wrote with a date in
\* start_date..end_date
Written(type, start_date, end_date) ==
    Total(ledger, type, LAMBDA t : Within(t, Ord(start_date), Ord(end_date)))

\* C10: no stale results: after any sequence of add_transaction,
\* update_transaction and delete_transaction, each report returns what the
\* transactions last written by the caller give: every added transaction is
\* counted, an updated one with its new fields at its new date only, a
\* deleted one not at all.
C10_NoStale ==
    /\ IsTrendAdvanced =>
          ret.data = ExpectedTrend(ledger, ArgStart, ArgEnd, ArgGranularity, ArgCategory)
    /\ call.op = "get_trend_data" =>
          LET g == IF Ord(call.args[2]) - Ord(call.args[1]) + 1 <= 31
                   THEN "day" ELSE "month"
          IN  ret = [granularity |-> g,
                     data |-> ExpectedTrend(ledger, call.args[1], call.args[2], g, None)]
    /\ call.op = "get_custom_period_summary" =>
          ret = [income_cents  |-> Written("income", call.args[1], call.args[2]),
                 expense_cents |-> Written("expense", call.args[1], call.args[2])]
    /\ call.op = "get_current_month_summary" =>
          LET first == Strftime(FirstDayOf(MonthIndex(today)))
              last == Strftime(LastDayOf(MonthIndex(today)))
          IN  ret = [income_cents  |-> Written("income", first, last),
                     expense_cents |-> Written("expense", first, last)]

\* C10 witness: a day-granularity trend right after an update_transaction,
\* with the one stored transaction counted in the bucket of its date and
\* every other bucket zero
C10_Witness ==
    /\ IsTrendAdvanced /\ ArgGranularity = "day" /\ ArgCategory = None
    /\ last_write = "update"
    /\ Len(rows) = 1 /\ rows[1].type = "expense"
    /\ \E i \in DOMAIN ret.data :
          /\ ret.data[i].label = rows[1].date
          /\ Cents(ret.data[i].expense) = rows[1].amount_cents
          /\ \A j \in DOMAIN ret.data \ {i} : Cents(ret.data[j].expense) = 0

-----------------------------------------------------------------------------
(* Repeated reports                                                        *)

\* the call that has returned is the call whose result the caller kept
SameCallAsKept ==
    /\ seen.on
    /\ call.op = seen.call.op
    /\ call.op # "idle"
    /\ call.args = seen.call.args

C12_NonPositiveRejected ==
    (IsLastNFullMonths /\ call.args[1] <= 0) => raised

\* a call of get_trend_data_advanced whose two dates parse and whose
\* start_date is after its end_date
ReversedTrendCall ==
    /\ call.op = "get_trend_data_advanced"
    /\ Parses(call.args[1]) /\ Parses(call.args[2])
    /\ StrLess(call.args[2], call.args[1])

\* C13: empty range: get_trend_data_advanced called with
\* start_date > end_date, at any of the four granularities, raises an error
\* or returns an empty bucket sequence, never a non-empty one.
C13_EmptyRange ==
    (ReversedTrendCall /\ call.args[3] \in Granularities)
        => (raised \/ Len(ret.data) = 0)

\* the core operations that take a start_date and an end_date
DateRangeOps ==
    {"get_trend_data_advanced", "get_trend_data", "get_custom_period_summary",
     "get_category_breakdown"}

\* a call of one of them with a start_date or end_date that is no date
MalformedCall ==
    /\ call.op \in DateRangeOps
    /\ ~Parses(call.args[1]) \/ ~Parses(call.args[2])

\* C14: a malformed date string passed as start_date or end_date to
\* get_trend_data_advanced, get_trend_data, get_custom_period_summary or
\* get_category_breakdown raises an error to the caller; none of them
\* ignores it and returns a result.
C14_MalformedRaises == MalformedCall => raised

\* C15: an unrecognized granularity passed to get_trend_data_advanced does
\* not raise: the result is the result for granularity "day" with the same
\* range and filter, tag "day" included; for the four recognized values the
\* returned granularity tag is the requested one.
C15_GranularityFallback ==
    (/\ call.op = "get_trend_data_advanced"
     /\ Parses(call.args[1]) /\ Parses(call.args[2]))
        => /\ ~raised
           /\ IF call.args[3] \in Granularities
                  THEN ret.granularity = call.args[3]
                  ELSE /\ ret.granularity = "day"
                       /\ ret = get_trend_data_advanced(call.args[1], call.args[2],
                                                        "day", call.args[4])

\* C15 witness: granularity "quarter" returned two daily buckets tagged
\* "day", one of them with an expense
C15_Witness ==
    /\ call.op = "get_trend_data_advanced"
    /\ call.args[3] = "quarter"
    /\ ~raised
    /\ ret.granularity = "day"
    /\ Len(ret.data) = 2
    /\ \E i \in 1..2 : ret.data[i].expense # Div100(0)

\* the sum of the stored amounts of a type dated in the calendar month with
\* index m
MonthTotal(type, m) ==
    Total(rows, type, LAMBDA t : MonthIndex(Strptime(t.date)) = m)

\* a percentage that was computed (no division by zero) and is 0
IsZeroPct(p) == p.num = 0 /\ p.den > 0

\* C16: division-by-zero guards: get_category_breakdown returns percentage 0
\* for every entry, and raises nothing, when the total of all categories in
\* the result is zero; get_month_over_month_change returns
\* expense_change_pct = 0 (income_change_pct = 0) whenever the previous
\* month's expense (income) total is zero, and never raises.
C16_ZeroGuards ==
    /\ call.op = "get_category_breakdown" =>
          /\ ~raised
          /\ Total(rows, call.args[3],
                   LAMBDA t : Within(t, Ord(call.args[1]), Ord(call.args[2]))) = 0
                => \A i \in DOMAIN ret : IsZeroPct(ret[i].percentage)
    /\ call.op = "get_month_over_month_change" =>
          /\ ~raised
          /\ MonthTotal("expense", MonthIndex(today) - 1) = 0
                => IsZeroPct(ret.expense_change_pct)
          /\ MonthTotal("income", MonthIndex(today) - 1) = 0
                => IsZeroPct(ret.income_change_pct)

\* C16 witness: a breakdown of two categories whose amounts are all 0
C16_Witness ==
    /\ call.op = "get_category_breakdown"
    /\ Len(ret) = 2
    /\ \A i \in DOMAIN ret : ret[i].amount_cents = 0 /\ IsZeroPct(ret[i].percentage)

\* C17: get_custom_period_summary(start, end) returns income_cents, the sum
\* of the amounts of all income transactions dated in [start, end], and
\* expense_cents, that of all expense transactions dated in [start, end]
\* (0 when there are none), and balance_cents = income_cents - expense_cents;
\* get_current_month_summary counts the transactions of the current month
\* and of no other month.
C17_PeriodSummary ==
    /\ call.op = "get_custom_period_summary" =>
          LET lo == Ord(call.args[1])
              hi == Ord(call.args[2])
              income == Total(rows, "income", LAMBDA t : Within(t, lo, hi))
              expense == Total(rows, "expense", LAMBDA t : Within(t, lo, hi))
          IN  /\ ret.income_cents = income
              /\ ret.expense_cents = expense
              /\ balance_cents(ret) = income - expense
    /\ call.op = "get_current_month_summary" =>
          /\ ret.income_cents = MonthTotal("income", MonthIndex(today))
          /\ ret.expense_cents = MonthTotal("expense", MonthIndex(today))
          /\ balance_cents(ret) = MonthTotal("income", MonthIndex(today))
                                     - MonthTotal("expense", MonthIndex(today))

\* C17 witness: the current month summary of a table with an expense of the
\* month before and an income of the current month: a positive balance
C17_Witness ==
    /\ call.op = "get_current_month_summary"
    /\ \E i \in DOMAIN rows : /\ rows[i].type = "expense"
                               /\ MonthIndex(Strptime(rows[i].date)) = MonthIndex(today) - 1
    /\ ret.expense_cents = 0
    /\ ret.income_cents > 0
    /\ balance_cents(ret) = ret.income_cents

\* the binary64 value of a display value cents / 100.0
FloatOf(x) == FloatDiv100(Cents(x))

\* the float values of the income and of the expense of the returned buckets
BucketIncomes == [i \in DOMAIN ret.data |-> FloatOf(ret.data[i].income)]
BucketExpenses == [i \in DOMAIN ret.data |-> FloatOf(ret.data[i].expense)]

IsTrendOfRange == call.op = "get_trend_data" /\ StrLE(call.args[1], call.args[2])

\* C18: for every range start <= end, the sum over all buckets of
\* get_trend_data(start, end) of income (of expense) equals the income (the
\* expense) of get_custom_period_summary(start, end).
C18_TrendEqualsSummary ==
    IsTrendOfRange =>
        LET summary == get_custom_period_summary(call.args[1], call.args[2])
        IN  /\ FloatSum(BucketIncomes) = FloatOf(summary_income(summary))
            /\ FloatSum(BucketExpenses) = FloatOf(summary_expense(summary))

\* a float that lies strictly between (cents - 1) / 100.0 and
\* (cents + 1) / 100.0
WithinACent(x, cents) ==
    /\ FloatLess(x, FloatDiv100(cents + 1))
    /\ IF cents = 0 THEN x = FZero ELSE FloatLess(FloatDiv100(cents - 1), x)

\* C18 as amended: for every range start <= end, the cents of the incomes
\* (of the expenses) of all buckets of get_trend_data(start, end) add up to
\* the income_cents (the expense_cents) of
\* get_custom_period_summary(start, end), and the sum of the bucket values
\* is less than 0.01 away from the summary's income (expense).
C18_TrendMatchesSummary ==
    IsTrendOfRange =>
        LET summary == get_custom_period_summary(call.args[1], call.args[2])
        IN  /\ SumSeq(ret.data, LAMBDA b : Cents(b.income)) = summary.income_cents
            /\ SumSeq(ret.data, LAMBDA b : Cents(b.expense)) = summary.expense_cents
            /\ WithinACent(FloatSum(BucketIncomes), summary.income_cents)
            /\ WithinACent(FloatSum(BucketExpenses), summary.expense_cents)

\* C18 witness: a trend of two day buckets with expenses of 10 and of 20
\* cents: the cents add up to the summary's 30, the values 0.1 and 0.2 do
\* not add up to 0.3
C18_Witness ==
    /\ IsTrendOfRange
    /\ ret.granularity = "day"
    /\ Len(ret.data) = 2
    /\ Cents(ret.data[1].expense) = 10
    /\ Cents(ret.data[2].expense) = 20
    /\ get_custom_period_summary(call.args[1], call.args[2]).expense_cents = 30
    /\ FloatSum(BucketExpenses)
           # FloatOf(summary_expense(get_custom_period_summary(call.args[1], call.args[2])))

\* the category an entry is reported under
CategoryOf(t) == IF t.category = None THEN Uncategorized ELSE t.category

MonthChange(type, m) == MonthTotal(type, m) - MonthTotal(type, m - 1)

\* the result get_month_over_month_change owes when the current calendar
\* month is m
IsChangeOfMonth(m) ==
    /\ ret.expense_change_cents = MonthChange("expense", m)
    /\ ret.income_change_cents = MonthChange("income", m)
    /\ MonthTotal("expense", m - 1) > 0 =>
          ret.expense_change_pct = [num |-> MonthChange("expense", m) * 100,
                                    den |-> MonthTotal("expense", m - 1)]
    /\ MonthTotal("income", m - 1) > 0 =>
          ret.income_change_pct = [num |-> MonthChange("income", m) * 100,
                                   den |-> MonthTotal("income", m - 1)]

\* C20: get_month_over_month_change returns expense_change_cents = (the
\* current calendar month's expense total) - (the immediately preceding
\* calendar month's expense total), and income_change_cents likewise, the
\* month before January being December of the year before; the percentage
\* deltas are change / previous total * 100 when the previous total is
\* positive. The current month is that of the day the call returned on or
\* that of the day before, on which it may have started.
C20_MonthOverMonth ==
    call.op = "get_month_over_month_change" =>
        \/ IsChangeOfMonth(MonthIndex(today))
        \/ IsChangeOfMonth(MonthIndex(FromOrdinal(ToOrdinal(today) - 1)))

\* the stored transaction counts in a daily row of the range lo..hi under
\* the category filter: an income, or an expense the filter lets through
CountsInRow(t, date, lo, hi, category) ==
    /\ t.date = date
    /\ Within(t, lo, hi)
    /\ t.type = "income" \/ Matches(t, category)

\* C21: raw aggregation is sparse: get_daily_summary_by_category(start, end,
\* category) returns rows in ascending date order, at most one per date, and
\* only for dates that have matching transactions; a date with zero matching
\* transactions is absent, with or without a category filter.
C21_Sparse ==
    call.op = "get_daily_summary_by_category" =>
        /\ \A i, j \in DOMAIN ret : i < j => StrLess(ret[i].date, ret[j].date)
        /\ \A i \in DOMAIN ret :
              \E k \in DOMAIN rows :
                  CountsInRow(rows[k], ret[i].date, Ord(call.args[1]),
                              Ord(call.args[2]), call.args[3])

\* (end - start).days + 1 of the call in progress
DaysOfCall == (Ord(call.args[2]) - Ord(call.args[1])) + 1

\* C22: get_trend_data(start, end) chooses the granularity: 'day' when the
\* inclusive number of days (end - start).days + 1 is at most 31, 'month'
\* otherwise; in both cases the result is that of
\* get_trend_data_advanced(start, end, that granularity, category=None).
C22_AutoGranularity ==
    (/\ call.op = "get_trend_data"
     /\ Parses(call.args[1]) /\ Parses(call.args[2]))
        => LET g == IF DaysOfCall <= 31 THEN "day" ELSE "month"
           IN  /\ ~raised
               /\ ret.granularity = g
               /\ ret = get_trend_data_advanced(call.args[1], call.args[2], g, None)

\* C22 witness: a range of exactly 31 days returned as 31 day buckets, one
\* of them with an expense
C22_Witness ==
    /\ call.op = "get_trend_data"
    /\ DaysOfCall = 31
    /\ ret.granularity = "day"
    /\ Len(ret.data) = 31
    /\ \E i \in DOMAIN ret.data : Cents(ret.data[i].expense) > 0

\* a string of the form YYYY-MM-DD that reads as year y, month m, day d
ReadsAs(str, y, m, d) ==
    /\ Len(str) = 10
    /\ str[5] = ChDash /\ str[8] = ChDash
    /\ \A i \in {1, 2, 3, 4, 6, 7, 9, 10} : IsDigit(str[i])
    /\ Strptime(str) = Date(y, m, d)

\* the number of days of month m of year y by the Gregorian rule
GregorianLength(y, m) ==
    IF m \in {1, 3, 5, 7, 8, 10, 12} THEN 31
    ELSE IF m \in {4, 6, 9, 11} THEN 30
    ELSE IF (y % 4 = 0 /\ y % 100 # 0) \/ y % 400 = 0 THEN 29
    ELSE 28

\* C23: for every year and every month in 1..12, get_month_range(year,
\* month) returns (first day, last day) of that month, the last day being
\* the month's length: 31, 30, or for February 29 in leap years (divisible
\* by 4 and not by 100, or divisible by 400) and 28 otherwise;
\* get_year_range(year) returns (YYYY-01-01, YYYY-12-31).
C23_MonthAndYearRange ==
    /\ call.op = "get_month_range" =>
          LET y == call.args[1]
              m == call.args[2]
          IN  /\ Len(ret) = 2
              /\ ReadsAs(ret[1], y, m, 1)
              /\ ReadsAs(ret[2], y, m, GregorianLength(y, m))
    /\ call.op = "get_year_range" =>
          /\ Len(ret) = 2
          /\ ReadsAs(ret[1], call.args[1], 1, 1)
          /\ ReadsAs(ret[2], call.args[1], 12, 31)

\* C23 witness: February of 1900, a century year that is no leap year,
\* ends on the 28th
C23_Witness ==
    /\ call.op = "get_month_range"
    /\ call.args = <<1900, 2>>
    /\ ret = <<D(1900, 2, 1), D(1900, 2, 28)>>

-----------------------------------------------------------------------------
(* Referential integrity of the store                                      *)

\* the transactions whose category_id (account_id) is id
ReferrersOf(column, id) == {i \in DOMAIN extra : extra[i][column] = <<id>>}

\* C24: deleting a category or an account that the category_id or the
\* account_id of some transaction references is rejected with an integrity
\* error and leaves the categories, the accounts and every transaction as
\* they were; and no delete_category or delete_account, rejected or not,
\* removes or changes a transaction.
C24_ReferencedDeleteRejected ==
    [][(call = Idle /\ call'.op \in {"delete_category", "delete_account"}) =>
          LET id == call'.args[1]
              referenced ==
                  IF call'.op = "delete_category"
                  THEN id \in Ids(categories) /\ ReferrersOf("category_id", id) # {}
                  ELSE id \in Ids(accounts) /\ ReferrersOf("account_id", id) # {}
          IN  /\ rows' = rows
              /\ extra' = extra
              /\ referenced =>
                    /\ raised'
                    /\ ret'.raised = "IntegrityError"
                    /\ categories' = categories
                    /\ accounts' = accounts
              /\ ~referenced => ~raised']_vars

\* C24 witness: delete_category of a category that a stored transaction
\* references has raised
C24_Witness ==
    /\ call.op = "delete_category"
    /\ raised
    /\ call.args[1] \in Ids(categories)
    /\ ReferrersOf("category_id", call.args[1]) # {}
    /\ Len(rows) > 0

-----------------------------------------------------------------------------
(* Seeding of the default categories                                       *)

\* the (name, type) pairs of a table of categories
NamedTypes(table) == {<<table[i].name, table[i].type>> : i \in DOMAIN table}

\* C25: constructing the store on a file with no schema version and an empty
\* table categories creates exactly the five DEFAULT_CATEGORIES; constructing
\* it again, after any add_category and delete_category, leaves the table
\* categories as it is; and the names of the categories are always unique.
C25_SeededOnce ==
    [][/\ (call = Idle /\ call'.op = "__init__") =>
            /\ (version = 0 /\ categories = <<>>) =>
                  /\ Len(categories') = Len(DEFAULT_CATEGORIES)
                  /\ NamedTypes(categories') =
                        {<<DEFAULT_CATEGORIES[i].name, DEFAULT_CATEGORIES[i].type>> :
                            i \in DOMAIN DEFAULT_CATEGORIES}
            /\ version = DB_SCHEMA_VERSION => categories' = categories
       /\ \A i, j \in DOMAIN categories' :
             categories'[i].name = categories'[j].name => i = j]_vars

\* C25 witness: the store was constructed again after the user deleted a
\* default category and added a category, and holds the user's category
C25_Witness ==
    /\ call.op = "__init__"
    /\ version = DB_SCHEMA_VERSION
    /\ \E i \in DOMAIN categories : categories[i].name = Food
    /\ \E k \in DOMAIN DEFAULT_CATEGORIES :
          \A i \in DOMAIN categories : categories[i].name # DEFAULT_CATEGORIES[k].name
    /\ sqlite_sequence.categories > Len(DEFAULT_CATEGORIES)

-----------------------------------------------------------------------------
(* Editing and deleting a transaction                                      *)

\* the transaction of id in a table of transactions and its other columns
StoredAs(table, columns, id) ==
    LET i == CHOOSE k \in DOMAIN table : table[k].id = id
    IN  <<table[i], columns[id]>>

-----------------------------------------------------------------------------
(* Weeks cut by the ends of the range                                      *)

\* week u (the days 7u + 1 .. 7u + 7) has a day before lo or a day after hi
Straddles(u, lo, hi) == 7 * u + 1 < lo \/ hi < 7 * u + 7

\* C27: in week granularity an ISO week that straddles start_date or
\* end_date has one bucket, labelled by the calendar rule, whose income and
\* expense are the sums of the transactions of that week dated inside
\* [start_date, end_date]: a transaction of the same week dated before
\* start_date or after end_date is not counted in it.
C27_StraddlingWeek ==
    (IsTrendAdvanced /\ ArgGranularity = "week" /\ StrLE(ArgStart, ArgEnd)) =>
        LET lo == Ord(ArgStart)
            hi == Ord(ArgEnd)
            OfWeek(t, u) == MondayWeek(Ord(t.date)) = u
            Inside(t) == lo <= Ord(t.date) /\ Ord(t.date) <= hi
        IN  \A u \in MondayWeek(lo)..MondayWeek(hi) :
                Straddles(u, lo, hi) =>
                    /\ Cardinality(BucketsOf("week", u)) = 1
                    /\ \A i \in BucketsOf("week", u) :
                          /\ Cents(ret.data[i].income) + 
                                 Total(rows, "income",
                                       LAMBDA t : OfWeek(t, u) /\ ~Inside(t))
                               = Total(rows, "income", LAMBDA t : OfWeek(t, u))
                          /\ Cents(ret.data[i].expense) +
                                 Total(rows, "expense",
                                       LAMBDA t : /\ OfWeek(t, u) /\ ~Inside(t)
                                                  /\ Matches(t, ArgCategory))
                               = Total(rows, "expense",
                                       LAMBDA t : OfWeek(t, u) /\ Matches(t, ArgCategory))

\* C27 witness: over 2026-01-04 .. 2026-01-05 the bucket of week 2026-W01
\* counts the expense of Sunday 2026-01-04 and not the expense of Monday
\* 2025-12-29, which lies in the same week before the start of the range
C27_Witness ==
    /\ IsTrendAdvanced /\ ArgGranularity = "week" /\ ArgCategory = None
    /\ ArgStart = D(2026, 1, 4) /\ ArgEnd = D(2026, 1, 5)
    /\ Len(rows) = 2
    /\ rows[1].date = D(2025, 12, 29) /\ rows[2].date = D(2026, 1, 4)
    /\ rows[1].type = "expense" /\ rows[2].type = "expense"
    /\ rows[1].amount_cents = 1000 /\ rows[2].amount_cents = 2550
    /\ Len(ret.data) = 2
    /\ ret.data[1].label = WeekKey(Date(2026, 1, 4))
    /\ Cents(ret.data[1].expense) = 2550

-----------------------------------------------------------------------------
(* The two reads of the date in get_month_over_month_change                *)

\* C28: get_month_over_month_change compares two consecutive calendar
\* months: the month summarised as the current one (the month of the date
\* read first) and the month summarised as the last one (the month before
\* the date read second) are a month and its immediate predecessor, also
\* when the date advances between the two reads.
C28_ConsecutiveMonths ==
    [][(call = Idle /\ call'.op = "get_month_over_month_change") =>
          LET first_read == today
              second_read == today'
              current == first_read.year * 12 + (first_read.month - 1)
              last == last_month(second_read)[1] * 12 + (last_month(second_read)[2] - 1)
          IN  last + 1 = current]_vars

-----------------------------------------------------------------------------
(* The category names offered for filtering                                *)

\* C29: each name c returned by get_expense_categories(start, end) is the
\* label of exactly one entry of get_category_breakdown(start, end,
\* "expense"), and the expenses of the buckets of
\* get_trend_data_advanced(start, end, g, c) add up to the amount_cents of
\* that entry, for every granularity g and every store content, expenses
\* stored without a category included.
C29_FilterConsistent ==
    call.op = "get_expense_categories" =>
        LET breakdown == get_category_breakdown(call.args[1], call.args[2], "expense")
        IN  \A k \in DOMAIN ret :
                LET entries == {i \in DOMAIN breakdown : breakdown[i].category = ret[k]}
                IN  /\ Cardinality(entries) = 1
                    /\ \A i \in entries, g \in Granularities :
                          SumSeq(get_trend_data_advanced(call.args[1], call.args[2],
                                                         g, ret[k]).data,
                                 LAMBDA b : Cents(b.expense))
                              = breakdown[i].amount_cents

-----------------------------------------------------------------------------
(* Reports are read-only                                                   *)

\* the operations of StatisticsService
ReportOps ==
    {"get_trend_data_advanced", "get_trend_data", "get_custom_period_summary",
     "get_category_breakdown", "get_current_month_summary",
     "get_month_over_month_change", "get_last_n_full_months_range",
     "get_year_range", "get_month_range", "get_expense_categories"}

\* C30: no call of a StatisticsService operation adds, changes or removes a
\* transaction, a category or an account, whether it returns or raises.
C30_ReadOnly ==
    [][(call = Idle /\ call'.op \in ReportOps) =>
          /\ rows' = rows
          /\ extra' = extra
          /\ categories' = categories
          /\ accounts' = accounts]_vars

\* C30 witness: get_trend_data_advanced has raised on a store that holds a
\* transaction, a category of the user and an account
C30_Witness ==
    /\ call.op = "get_trend_data_advanced"
    /\ raised
    /\ Len(rows) > 0
    /\ Len(categories) > Len(DEFAULT_CATEGORIES)
    /\ Len(accounts) > 0

=============================================================================
